---------------------------- MODULE Spec2Model ----------------------------
(***************************************************************************)
(* EchoMind server: the AI provider gateway (class AIService), its startup *)
(* probe and the operations built on it.                                   *)
(*                                                                         *)
(* Text is modelled as a sequence of tokens (a token is an indivisible     *)
(* piece of text, written as a TLA+ string), so that includes, replace,    *)
(* split and + act on it as the JavaScript string methods do.              *)
(***************************************************************************)
EXTENDS Naturals, Sequences, FiniteSets

(***************************************************************************)
(* JavaScript values.                                                      *)
(***************************************************************************)
\* null, where a text is expected (a path, a template, an error text)
NullText == <<"null">>

\* !s for a text s: null and the empty string are falsy
Falsy(s) == s = NullText \/ s = <<>>

\* String.prototype.includes on token sequences: sub occurs contiguously in s
Includes(s, sub) ==
    \E i \in 0..(Len(s) - Len(sub)) :
        \A j \in 1..Len(sub) : s[i + j] = sub[j]

\* name.split(':')[0]: the tokens before the first ":" token
RECURSIVE SplitColonHead(_)
SplitColonHead(s) ==
    IF s = <<>> \/ Head(s) = ":" THEN <<>>
    ELSE <<Head(s)>> \o SplitColonHead(Tail(s))

(***************************************************************************)
(* Configuration read by the constructor.                                  *)
(***************************************************************************)
\* process.env.GEMINI_MODEL || 'gemini-1.5-flash'
geminiModel == <<"gemini-1.5-flash">>

\* process.env.OLLAMA_MODEL || 'llama3.2:3b'
textModel == <<"llama3.2", ":", "3b">>

\* process.env.OLLAMA_VISION_MODEL || 'llama3.2-vision'
visionModel == <<"llama3.2", "-vision">>

\* process.env.USE_GEMINI as the deployment may set it
EnvUseGemini == {"true", "false", "unset"}

\* the environments the process may be started in: the use-cloud setting and
\* whether GEMINI_API_KEY (or GOOGLE_API_KEY) is set
Envs == [USE_GEMINI : EnvUseGemini, apiKey : BOOLEAN]

(***************************************************************************)
(* What the providers may answer.                                          *)
(***************************************************************************)
\* names a local model registry may list
otherModel == <<"mistral", ":", "7b">>
InstalledModels == {textModel, visionModel, otherModel}

\* error texts of failed provider calls
ProviderErrors == {<<"connect ECONNREFUSED">>}
TimeoutExceeded == <<"timeout of 60000ms exceeded">>

\* texts a provider generates
ProviderTexts == {<<"pong">>}

\* a provider call's outcome: an answer, an exception, an answer of the
\* wrong shape, or no answer at all.  No answer becomes an exception where
\* the call is given a timeout (the axios posts); a call that is given none
\* (the cloud SDK's generateContent, the axios gets of the model list)
\* stays pending
Outcomes ==
    [kind : {"ok"}, text : ProviderTexts]
    \cup [kind : {"error"}, error : ProviderErrors]
    \cup {[kind |-> "malformed"], [kind |-> "silent"]}


(***************************************************************************)
(* The file system, as far as the gateway reads it.                        *)
(***************************************************************************)
\* a path is a text whose last token is the extension
UploadedImage == <<"img", ".png">>
MissingImage == <<"gone", ".jpg">>

\* the files on disk when the server starts
Files == {UploadedImage, <<"voice", ".webm">>}

\* an absent path argument (null)
NoPath == NullText

\* fs.existsSync, on the set fs of the paths that exist
existsSync(fs, p) == p \in fs

\* getMimeType: the extension, lower-cased, looked up in a fixed table
getMimeType(filePath) ==
    LET ext == filePath[Len(filePath)]
    IN  CASE ext \in {".jpg", ".JPG", ".jpeg", ".JPEG"} -> "image/jpeg"
          [] ext \in {".png", ".PNG"} -> "image/png"
          [] ext \in {".gif", ".GIF"} -> "image/gif"
          [] ext \in {".webp", ".WEBP"} -> "image/webp"
          [] OTHER -> "image/jpeg"

\* the copy of a thrown Error's message
NotInitialized == <<"Gemini API not initialized">>
ImageNotFound(p) == <<"Image file not found: ">> \o p
NotAFunction(name) == <<"this.", name, " is not a function">>
UndefinedProperty == <<"Cannot read properties of undefined">>

(***************************************************************************)
(* Results.                                                                *)
(***************************************************************************)
\* the fixed fallback copy, by requested modality
fallbackResponses ==
    [text |-> <<"I'm currently offline. Please ensure Ollama is running with Llama 3.2 3B model installed.">>,
     image |-> <<"I'm unable to analyze images right now. Please check that Ollama is running with Llama 3.2 Vision model.">>,
     image_qa |-> <<"I can't answer questions about images at the moment. Please verify Llama 3.2 Vision model is available.">>,
     stream |-> <<"Streaming is unavailable. Please check Ollama service status.">>]

\* a variant of getFallbackResponse that shows the provider's error text to
\* the user in place of the fixed copy
getFallbackResponse_echoesError(type, error) ==
    [success |-> FALSE,
     content |-> IF error # NullText THEN error
                 ELSE IF type \in DOMAIN fallbackResponses
                 THEN fallbackResponses[type]
                 ELSE <<"AI service is currently unavailable.">>,
     error |-> error,
     model |-> <<"fallback">>,
     type |-> type]

\* getFallbackResponse(type, error = null)
getFallbackResponse(type, error) ==
    [success |-> FALSE,
     content |-> IF type \in DOMAIN fallbackResponses
                 THEN fallbackResponses[type]
                 ELSE <<"AI service is currently unavailable.">>,
     error |-> error,
     model |-> <<"fallback">>,
     type |-> type]

\* how a call of a method ends: it returns a value, it throws (an async
\* method: its promise is fulfilled or rejected), or it stays pending for
\* ever; calls lists the provider requests it made, in order
Returned(v, calls) == [status |-> "returned", value |-> v, calls |-> calls]
Thrown(e, calls) == [status |-> "threw", error |-> e, calls |-> calls]
Pending(calls) == [status |-> "pending", calls |-> calls]

\* error.message of the exception a provider outcome raises in the caller:
\* the transport's own error, or the TypeError of reading a field of an
\* answer that has not the expected shape
ErrorMessage(o) ==
    CASE o.kind = "error" -> o.error
      [] o.kind = "silent" -> TimeoutExceeded
      [] OTHER -> UndefinedProperty

(***************************************************************************)
(* PromptComposer.                                                         *)
(***************************************************************************)
\* whitespace tokens
IsSpace(t) == t \in {" ", "\n"}

\* String.prototype.trim
RECURSIVE TrimLeft(_)
TrimLeft(s) == IF s # <<>> /\ IsSpace(Head(s)) THEN TrimLeft(Tail(s)) ELSE s

RECURSIVE TrimRight(_)
TrimRight(s) ==
    IF s # <<>> /\ IsSpace(s[Len(s)])
    THEN TrimRight(SubSeq(s, 1, Len(s) - 1))
    ELSE s

Trim(s) == TrimRight(TrimLeft(s))

\* the replacement text of String.prototype.replace(pattern, replacement)
\* with a string replacement: "$$" stands for "$" and "$&" for the matched
\* text; every other token is taken as it is
RECURSIVE ExpandReplacement(_, _)
ExpandReplacement(replacement, matched) ==
    IF replacement = <<>> THEN <<>>
    ELSE (CASE Head(replacement) = "$$" -> <<"$">>
            [] Head(replacement) = "$&" -> <<matched>>
            [] OTHER -> <<Head(replacement)>>)
         \o ExpandReplacement(Tail(replacement), matched)

\* String.prototype.replace(token, replacement): the first occurrence only
RECURSIVE ReplaceFirst(_, _, _)
ReplaceFirst(s, token, replacement) ==
    IF s = <<>> THEN <<>>
    ELSE IF Head(s) = token
         THEN ExpandReplacement(replacement, token) \o Tail(s)
         ELSE <<Head(s)>> \o ReplaceFirst(Tail(s), token, replacement)

\* a variant of applyPromptTemplate without the case of the empty template
applyPromptTemplate_noEmptyCase(userPrompt, templateText) ==
    IF Includes(templateText, <<"{user_prompt}">>)
       \/ Includes(templateText, <<"{prompt}">>)
    THEN ReplaceFirst(
             ReplaceFirst(templateText, "{user_prompt}", userPrompt),
             "{prompt}", userPrompt)
    ELSE templateText \o <<"\n\nUser Query: ">> \o userPrompt

\* a variant of applyPromptTemplate that puts the user's text before a
\* template without placeholder
applyPromptTemplate_userFirst(userPrompt, templateText) ==
    IF Falsy(templateText) \/ Trim(templateText) = <<>>
    THEN userPrompt
    ELSE IF Includes(templateText, <<"{user_prompt}">>)
            \/ Includes(templateText, <<"{prompt}">>)
         THEN ReplaceFirst(
                  ReplaceFirst(templateText, "{user_prompt}", userPrompt),
                  "{prompt}", userPrompt)
         ELSE userPrompt \o <<"\n\nUser Query: ">> \o templateText

\* applyPromptTemplate(userPrompt, templateText)
applyPromptTemplate(userPrompt, templateText) ==
    IF Falsy(templateText) \/ Trim(templateText) = <<>>
    THEN userPrompt
    ELSE IF Includes(templateText, <<"{user_prompt}">>)
            \/ Includes(templateText, <<"{prompt}">>)
         THEN ReplaceFirst(
                  ReplaceFirst(templateText, "{user_prompt}", userPrompt),
                  "{prompt}", userPrompt)
         ELSE templateText \o <<"\n\nUser Query: ">> \o userPrompt

(***************************************************************************)
(* The provider methods.  this is the record of the service's fields (and  *)
(* of the files on disk, fs) as the method reads them before its first     *)
(* await; o is what the provider answers if it is called.                  *)
(***************************************************************************)
\* the request a method sends to a provider: the turns and the image part
NoImagePart == [data |-> NoPath, mimeType |-> "none"]

GeminiCall(prompt, imagePart) ==
    [provider |-> "gemini", api |-> "generateContent", model |-> geminiModel,
     messages |-> <<[role |-> "user", content |-> prompt]>>,
     image |-> imagePart]

OllamaChatCall(messages) ==
    [provider |-> "ollama", api |-> "/api/chat", model |-> textModel,
     messages |-> messages, image |-> NoImagePart]

\* generateOllamaTextResponse(prompt, context = [])
generateOllamaTextResponse(this, prompt, context, o) ==
    IF ~this.isOllamaAvailable
    THEN Returned(getFallbackResponse("text", NullText), <<>>)
    ELSE LET messages == context \o <<[role |-> "user", content |-> prompt]>>
             calls == <<OllamaChatCall(messages)>>
         IN  IF o.kind = "ok"
             THEN Returned([success |-> TRUE, content |-> o.text,
                            model |-> textModel, type |-> "text"], calls)
             ELSE Returned(getFallbackResponse("text", ErrorMessage(o)), calls)

\* the request of the two image methods: POST /api/generate, not streamed
OllamaVisionCall(prompt, imagePath) ==
    [provider |-> "ollama", api |-> "/api/generate", model |-> visionModel,
     messages |-> <<[role |-> "user", content |-> prompt]>>,
     image |-> [data |-> imagePath, mimeType |-> "none"]]

\* error.message in the catch clause of the two image methods, whose post
\* has a timeout of 90 s
TimeoutExceededImage == <<"timeout of 90000ms exceeded">>
ImageErrorMessage(o) ==
    IF o.kind = "silent" THEN TimeoutExceededImage ELSE ErrorMessage(o)

\* the message of readFileSync's exception: no path, or no such file
ReadFileError(p) ==
    IF Falsy(p) THEN <<"The \"path\" argument must be of type string">>
    ELSE <<"ENOENT: no such file or directory, open ">> \o p

\* the prompt generateOllamaImageCaption sends when it is given none
DefaultCaptionPrompt ==
    <<"Please describe this image in detail. Focus on the main subjects, objects, activities, and setting.">>

\* generateOllamaImageCaption(imagePath, customPrompt = null)
generateOllamaImageCaption(this, imagePath, customPrompt, o) ==
    IF ~this.isOllamaAvailable
    THEN Returned(getFallbackResponse("image", NullText), <<>>)
    ELSE IF ~existsSync(this.fs, imagePath)
    THEN Returned(getFallbackResponse("image", ReadFileError(imagePath)), <<>>)
    ELSE LET prompt == IF Falsy(customPrompt) THEN DefaultCaptionPrompt
                       ELSE customPrompt
             calls == <<OllamaVisionCall(prompt, imagePath)>>
         IN  IF o.kind = "ok"
             THEN Returned([success |-> TRUE, content |-> o.text,
                            model |-> visionModel, type |-> "image_caption"], calls)
             ELSE Returned(getFallbackResponse("image", ImageErrorMessage(o)), calls)

\* previousContext.join(' ')
RECURSIVE JoinSpace(_)
JoinSpace(texts) ==
    IF texts = <<>> THEN <<>>
    ELSE IF Len(texts) = 1 THEN Head(texts)
    ELSE Head(texts) \o <<" ">> \o JoinSpace(Tail(texts))

\* the prompt answerImageQuestion composes
imageQuestionPrompt(question, previousContext) ==
    (IF previousContext # <<>>
     THEN <<"Previous context: ">> \o JoinSpace(previousContext) \o <<" \n\n">>
     ELSE <<>>)
    \o <<"Looking at this image, please answer the following question: ">>
    \o question

\* answerImageQuestion(imagePath, question, previousContext = [])
answerImageQuestion(this, imagePath, question, previousContext, o) ==
    IF ~this.isOllamaAvailable
    THEN Returned(getFallbackResponse("image_qa", NullText), <<>>)
    ELSE IF ~existsSync(this.fs, imagePath)
    THEN Returned(getFallbackResponse("image_qa", ReadFileError(imagePath)), <<>>)
    ELSE LET calls == <<OllamaVisionCall(imageQuestionPrompt(question, previousContext),
                                         imagePath)>>
         IN  IF o.kind = "ok"
             THEN Returned([success |-> TRUE, content |-> o.text,
                            model |-> visionModel, type |-> "image_qa"], calls)
             ELSE Returned(getFallbackResponse("image_qa", ImageErrorMessage(o)), calls)

\* a variant of generateGeminiTextResponse that turns to the local provider
\* when the cloud call fails
generateGeminiTextResponse_failover(this, prompt, context, o) ==
    IF ~this.genAI
    THEN Returned(getFallbackResponse("text", NotInitialized), <<>>)
    ELSE LET calls == <<GeminiCall(prompt, NoImagePart)>>
             local == generateOllamaTextResponse(
                          [this EXCEPT !.isOllamaAvailable = TRUE], prompt, context, o)
         IN  CASE o.kind = "ok" ->
                    Returned([success |-> TRUE, content |-> o.text,
                              model |-> geminiModel, type |-> "text"], calls)
               [] o.kind = "silent" -> Pending(calls)
               [] OTHER -> Returned(local.value, calls \o local.calls)

\* generateGeminiTextResponse(prompt, context = [])
generateGeminiTextResponse(this, prompt, context, o) ==
    IF ~this.genAI
    THEN Returned(getFallbackResponse("text", NotInitialized), <<>>)
    ELSE LET calls == <<GeminiCall(prompt, NoImagePart)>>
         IN  CASE o.kind = "ok" ->
                    Returned([success |-> TRUE, content |-> o.text,
                              model |-> geminiModel, type |-> "text"], calls)
               [] o.kind = "silent" -> Pending(calls)
               [] OTHER -> Returned(getFallbackResponse("text", ErrorMessage(o)), calls)

\* generateGeminiMultimodalResponse(prompt, imagePath = null, context = [])
generateGeminiMultimodalResponse(this, prompt, imagePath, context, o) ==
    IF Falsy(imagePath)
    THEN generateGeminiTextResponse(this, prompt, context, o)
    ELSE IF ~this.genAI
    THEN Returned(getFallbackResponse("image", NotInitialized), <<>>)
    ELSE IF ~existsSync(this.fs, imagePath)
    THEN Returned(getFallbackResponse("image", ImageNotFound(imagePath)), <<>>)
    ELSE LET imagePart == [data |-> imagePath, mimeType |-> getMimeType(imagePath)]
             calls == <<GeminiCall(prompt, imagePart)>>
         IN  CASE o.kind = "ok" ->
                    Returned([success |-> TRUE, content |-> o.text,
                              model |-> geminiModel, type |-> "multimodal",
                              hasImage |-> TRUE], calls)
               [] o.kind = "silent" -> Pending(calls)
               [] OTHER -> Returned(getFallbackResponse("image", ErrorMessage(o)), calls)

\* a variant of the routing that takes the use-cloud flag for the cloud
\* provider's availability
Route_cloudWhenConfigured(this) ==
    IF this.useGemini THEN "gemini"
    ELSE IF this.isOllamaAvailable THEN "ollama"
    ELSE "none"

\* the provider a generation request is routed to
Route(this) ==
    IF this.useGemini /\ this.isGeminiAvailable THEN "gemini"
    ELSE IF this.isOllamaAvailable THEN "ollama"
    ELSE "none"

\* generateTextResponse(prompt, context = [])
generateTextResponse(this, prompt, context, o) ==
    CASE Route(this) = "gemini" -> generateGeminiTextResponse(this, prompt, context, o)
      [] Route(this) = "ollama" -> generateOllamaTextResponse(this, prompt, context, o)
      [] OTHER -> Returned(getFallbackResponse("text", NullText), <<>>)

\* a variant of generateMultimodalResponse whose fallback is the text copy
\* whatever the request carries
generateMultimodalResponse_textFallback(this, prompt, imagePath, context, o) ==
    CASE Route(this) = "gemini" ->
            generateGeminiMultimodalResponse(this, prompt, imagePath, context, o)
      [] Route(this) = "ollama" ->
            Thrown(NotAFunction("generateOllamaMultimodalResponse"), <<>>)
      [] OTHER -> Returned(getFallbackResponse("text", NullText), <<>>)

\* generateMultimodalResponse(prompt, imagePath = null, context = []); its
\* local branch calls this.generateOllamaMultimodalResponse, which the class
\* does not define: the call raises a TypeError
generateMultimodalResponse(this, prompt, imagePath, context, o) ==
    CASE Route(this) = "gemini" ->
            generateGeminiMultimodalResponse(this, prompt, imagePath, context, o)
      [] Route(this) = "ollama" ->
            Thrown(NotAFunction("generateOllamaMultimodalResponse"), <<>>)
      [] OTHER ->
            Returned(getFallbackResponse(IF Falsy(imagePath) THEN "text" ELSE "image", NullText), <<>>)

\* generateTemplatedResponse(prompt, templateText = null, imagePath = null,
\* context = [])
generateTemplatedResponse(this, prompt, templateText, imagePath, context, o) ==
    LET finalPrompt == IF Falsy(templateText) THEN prompt
                       ELSE applyPromptTemplate(prompt, templateText)
        inner == IF Falsy(imagePath)
                 THEN generateTextResponse(this, finalPrompt, context, o)
                 ELSE generateMultimodalResponse(this, finalPrompt, imagePath, context, o)
    IN  IF inner.status = "threw"
        THEN Returned(getFallbackResponse("text", inner.error), inner.calls)
        ELSE inner

(***************************************************************************)
(* Diagnostics.                                                            *)
(***************************************************************************)
\* what the local server answers to getModelInfo's GET /api/tags: a model
\* list, an exception, a payload without a list (read as an empty one), or
\* nothing at all (the call has no timeout)
TagsAnswers ==
    {[kind |-> "ok", models |-> {textModel}],
     [kind |-> "error", error |-> <<"connect ECONNREFUSED">>],
     [kind |-> "malformed"],
     [kind |-> "silent"]}

OllamaTagsCall ==
    [provider |-> "ollama", api |-> "/api/tags", model |-> NullText,
     messages |-> <<>>, image |-> NoImagePart]

\* getModelInfo()
getModelInfo(this, o) ==
    IF this.isGeminiAvailable
    THEN Returned([available |-> TRUE, activeService |-> "Gemini",
                   model |-> geminiModel, command |-> "undefined"], <<>>)
    ELSE IF this.isOllamaAvailable
    THEN CASE o.kind = "silent" -> Pending(<<OllamaTagsCall>>)
           [] o.kind = "error" ->
                Returned([available |-> FALSE, error |-> ErrorMessage(o),
                          models |-> {}], <<OllamaTagsCall>>)
           [] OTHER ->
                Returned([available |-> TRUE, activeService |-> "Ollama",
                          models |-> IF o.kind = "ok" THEN o.models ELSE {},
                          textModel |-> textModel,
                          visionModel |-> visionModel], <<OllamaTagsCall>>)
    ELSE Returned([available |-> FALSE, error |-> <<"No AI service available">>,
                   models |-> {}], <<>>)

\* a variant of isReady that looks at the cloud provider only
isReady_cloudOnly(this) ==
    Returned([ready |-> this.isGeminiAvailable], <<>>)

\* isReady(); the boolean it returns is held in the field ready
isReady(this) ==
    Returned([ready |-> this.isGeminiAvailable \/ this.isOllamaAvailable], <<>>)

\* getCurrentService()
getCurrentService(this) ==
    Returned(
        [useGemini |-> this.useGemini,
         isGeminiAvailable |-> this.isGeminiAvailable,
         isOllamaAvailable |-> this.isOllamaAvailable,
         activeService |-> IF this.isGeminiAvailable THEN "Gemini"
                           ELSE IF this.isOllamaAvailable THEN "Ollama" ELSE "None",
         model |-> IF this.isGeminiAvailable THEN geminiModel
                   ELSE IF this.isOllamaAvailable THEN textModel ELSE <<"none">>],
        <<>>)

(***************************************************************************)
(* Streaming.                                                              *)
(***************************************************************************)
\* a line of a chunk: unparsable text, or a JSON object with a response
\* fragment (possibly empty) and a done flag
BadLine == [bad |-> TRUE, response |-> <<>>, done |-> FALSE]
Line(fragment, isDone) == [bad |-> FALSE, response |-> fragment, done |-> isDone]

\* what axios.post(..., {responseType: 'stream', timeout: 60000}) answers
PostAnswers ==
    {[kind |-> "ok"]} \cup [kind : {"error"}, error : ProviderErrors \cup {TimeoutExceeded}]

OllamaGenerateCall(model, prompt, imagePath) ==
    [provider |-> "ollama", api |-> "/api/generate", model |-> model,
     messages |-> <<[role |-> "user", content |-> prompt]>>,
     image |-> [data |-> imagePath, mimeType |-> "none"]]

\* the message of readFileSync's exception for a missing file
NoSuchFile(p) == <<"ENOENT: no such file or directory, open ">> \o p

\* streamResponse's modelToUse
modelToUse(imagePath) == IF Falsy(imagePath) THEN textModel ELSE visionModel

\* streamResponse up to its await of axios.post: whether it sends the
\* request, and the fallback it returns at once when it does not (the local
\* provider is not available, or readFileSync throws on the image)
streamReachesPost(this, imagePath) ==
    /\ this.isOllamaAvailable
    /\ Falsy(imagePath) \/ existsSync(this.fs, imagePath)

streamFallbackAtStart(this, imagePath) ==
    IF ~this.isOllamaAvailable
    THEN Returned(getFallbackResponse("stream", NullText), <<>>)
    ELSE Returned(getFallbackResponse("stream", NoSuchFile(imagePath)), <<>>)

\* the state of an open stream: the text accumulated, the fragments passed
\* to onChunk, the returned promise (pending, resolved or rejected) with the
\* content it was resolved with or the error it was rejected with, whether
\* onChunk was called once the promise was settled, and the transport
\* (flowing, ended or errored)
OpenStream ==
    [fullResponse |-> <<>>, onChunk |-> <<>>, promise |-> "pending",
     content |-> <<>>, error |-> NullText, late |-> FALSE,
     transport |-> "flowing"]

\* the result streamResponse resolves with
streamResult(content, imagePath) ==
    [success |-> TRUE, content |-> content, model |-> modelToUse(imagePath),
     type |-> "stream"]

\* one line of the 'data' handler's loop
onLine(st, line) ==
    LET st1 == IF line.response # <<>>
               THEN [st EXCEPT !.fullResponse = @ \o line.response,
                               !.onChunk = Append(@, line.response),
                               !.late = @ \/ st.promise # "pending"]
               ELSE st
    IN  IF line.done /\ st1.promise = "pending"
        THEN [st1 EXCEPT !.promise = "resolved", !.content = st1.fullResponse]
        ELSE st1

\* the 'data' handler: the lines in order, up to the first that JSON.parse
\* rejects (the catch clause ends the loop)
RECURSIVE onData(_, _)
onData(st, lines) ==
    IF lines = <<>> \/ Head(lines).bad THEN st
    ELSE onData(onLine(st, Head(lines)), Tail(lines))

\* a variant of the 'error' handler that settles with the text received
\* so far when there is some
onError_resolvesPartial(st, error) ==
    IF st.promise = "pending"
    THEN IF st.fullResponse # <<>>
         THEN [st EXCEPT !.promise = "resolved", !.content = st.fullResponse,
                         !.transport = "errored"]
         ELSE [st EXCEPT !.promise = "rejected", !.error = error,
                         !.transport = "errored"]
    ELSE [st EXCEPT !.transport = "errored"]

\* the 'error' handler: reject(error)
onError(st, error) ==
    IF st.promise = "pending"
    THEN [st EXCEPT !.promise = "rejected", !.error = error,
                    !.transport = "errored"]
    ELSE [st EXCEPT !.transport = "errored"]

\* the 'end' handler: resolve, if any text was accumulated
onEnd(st) ==
    IF st.fullResponse # <<>> /\ st.promise = "pending"
    THEN [st EXCEPT !.promise = "resolved", !.content = st.fullResponse,
                    !.transport = "ended"]
    ELSE [st EXCEPT !.transport = "ended"]

\* the events of a stream: data chunks, then possibly an end or an error
DataEvent(chunk) == [type |-> "data", chunk |-> chunk, error |-> NullText]
EndEvent == [type |-> "end", chunk |-> <<>>, error |-> NullText]
ErrorEvent(e) == [type |-> "error", chunk |-> <<>>, error |-> e]

\* the handlers run on the events in order, while the transport delivers
RECURSIVE onEvents(_, _)
onEvents(st, events) ==
    IF events = <<>> \/ st.transport # "flowing" THEN st
    ELSE LET e == Head(events)
         IN  onEvents(CASE e.type = "data" -> onData(st, e.chunk)
                        [] e.type = "error" -> onError(st, e.error)
                        [] OTHER -> onEnd(st),
                      Tail(events))

\* the streams the local server may deliver
StreamScripts ==
    {<<DataEvent(<<Line(<<"a">>, FALSE)>>), DataEvent(<<Line(<<"b">>, TRUE)>>), EndEvent>>,
     <<DataEvent(<<Line(<<"a">>, FALSE)>>), EndEvent>>,
     <<DataEvent(<<Line(<<"a">>, FALSE)>>), ErrorEvent(<<"aborted">>)>>,
     <<EndEvent>>,
     <<DataEvent(<<BadLine, Line(<<"b">>, TRUE)>>), EndEvent>>,
     <<DataEvent(<<Line(<<>>, TRUE), Line(<<"c">>, FALSE)>>), EndEvent>>,
     <<DataEvent(<<Line(<<"a">>, TRUE)>>), ErrorEvent(<<"aborted">>)>>}

\* streamResponse(prompt, imagePath = null, onChunk = null), with the
\* answer to its post and the events of the stream the post opened: what
\* its caller receives from the promise the method returns
streamResponse(this, prompt, imagePath, post, events) ==
    LET calls == <<OllamaGenerateCall(modelToUse(imagePath), prompt, imagePath)>>
        st == onEvents(OpenStream, events)
    IN  IF ~streamReachesPost(this, imagePath)
        THEN streamFallbackAtStart(this, imagePath)
        ELSE IF post.kind # "ok"
        THEN Returned(getFallbackResponse("stream", post.error), calls)
        ELSE CASE st.promise = "resolved" ->
                    Returned(streamResult(st.content, imagePath), calls)
               [] st.promise = "rejected" -> Thrown(st.error, calls)
               [] OTHER -> Pending(calls)

(***************************************************************************)
(* Transcription.                                                          *)
(***************************************************************************)
UploadedAudio == <<"voice", ".webm">>
MissingAudio == <<"lost", ".webm">>

\* the default configuration and the alternatives, in the order tried
RecognizeConfigs ==
    <<[encoding |-> "WEBM_OPUS", sampleRateHertz |-> 48000],
      [encoding |-> "OGG_OPUS", sampleRateHertz |-> 48000],
      [encoding |-> "WEBM_OPUS", sampleRateHertz |-> 16000],
      [encoding |-> "MP3", sampleRateHertz |-> 44100],
      [encoding |-> "LINEAR16", sampleRateHertz |-> 16000]>>

\* what speechClient.recognize answers: results whose transcripts join to a
\* text (possibly empty or blank), no results, or an exception
Heard(transcript) == [kind |-> "results", transcript |-> transcript, error |-> NullText]
NoResults == [kind |-> "empty", transcript |-> <<>>, error |-> NullText]
Refused(error) == [kind |-> "error", transcript |-> <<>>, error |-> error]

\* the answers of the cloud speech backend to the five configurations
RecognizeScripts ==
    {<<Heard(<<"hello">>), NoResults, NoResults, NoResults, NoResults>>,
     <<Refused(<<"bad encoding">>), NoResults, Heard(<<"hello">>),
       Heard(<<"other">>), NoResults>>,
     <<Heard(<<>>), Heard(<<" ">>), NoResults, NoResults, NoResults>>,
     <<NoResults, Refused(<<"bad encoding">>), Heard(<<>>), Heard(<<"hello">>),
       NoResults>>,
     <<NoResults, NoResults, NoResults, NoResults, NoResults>>,
     <<Refused(<<"bad encoding">>), NoResults, NoResults, NoResults,
       Refused(<<"quota">>)>>}

\* how the whisper command ends: whether exec succeeded, and the sidecar
\* transcript it wrote (NullText for none)
WhisperAnswers ==
    [exec : {"ok", "error"}, sidecar : {NullText, <<"hello">>, <<>>}]

\* the marker of the local CLI in the list of a call's attempts
WhisperRun == [encoding |-> "whisper-cli", sampleRateHertz |-> 0]

\* path.join(outputDir, baseName + '.txt')
transcriptPath(audioFilePath) ==
    SubSeq(audioFilePath, 1, Len(audioFilePath) - 1) \o <<".txt">>

AudioNotFound(p) == <<"Audio file not found: ">> \o p
ServicesNotAvailable ==
    <<"Speech-to-text services not available. Please enable Google Cloud Speech API or install Whisper.">>
AllConfigsFailed == <<"Failed to transcribe audio with all available configurations">>

transcribeFailure(error) ==
    [success |-> FALSE, error |-> error, transcription |-> NullText]

\* transcribeWithGoogleCloud's success result
cloudResult(transcription) ==
    [success |-> TRUE, transcription |-> Trim(transcription)]

\* a variant of the attempts that goes through every configuration and
\* keeps the last transcript it got
RECURSIVE recognizeFrom_keepsGoing(_, _, _, _)
recognizeFrom_keepsGoing(i, answers, lastError, tried) ==
    IF i > Len(RecognizeConfigs)
    THEN [transcription |-> NullText, lastError |-> lastError, tried |-> tried]
    ELSE LET a == answers[i]
             tried1 == Append(tried, RecognizeConfigs[i])
             rest == recognizeFrom_keepsGoing(
                         i + 1, answers,
                         IF a.kind = "error" THEN a.error ELSE lastError, tried1)
         IN  IF a.kind = "results" /\ rest.transcription = NullText
             THEN [rest EXCEPT !.transcription = a.transcript]
             ELSE rest

\* transcribeWithGoogleCloud's attempts from configuration i on (1 is the
\* default configuration): the default attempt ends them when it gives a
\* non-empty transcript, an alternative ends them (break) when it gives
\* results at all; an exception replaces lastError
RECURSIVE recognizeFrom(_, _, _, _)
recognizeFrom(i, answers, lastError, tried) ==
    IF i > Len(RecognizeConfigs)
    THEN [transcription |-> NullText, lastError |-> lastError, tried |-> tried]
    ELSE LET a == answers[i]
             tried1 == Append(tried, RecognizeConfigs[i])
         IN  IF a.kind = "results" /\ (a.transcript # <<>> \/ i > 1)
             THEN [transcription |-> a.transcript, lastError |-> lastError,
                   tried |-> tried1]
             ELSE recognizeFrom(i + 1, answers,
                                IF a.kind = "error" THEN a.error ELSE lastError,
                                tried1)

\* transcribeWithGoogleCloud(audioFilePath): it returns its result or throws
\* the last error (or a fixed one when no attempt threw)
transcribeWithGoogleCloud(answers) ==
    LET c == recognizeFrom(1, answers, NullText, <<>>)
    IN  IF ~Falsy(c.transcription)
        THEN Returned(cloudResult(c.transcription), c.tried)
        ELSE Thrown(IF c.lastError # NullText THEN c.lastError ELSE AllConfigsFailed,
                    c.tried)

\* the text of a sidecar that an earlier run left on disk
StaleTranscript == <<"earlier">>

\* the sidecar's text once the command has ended (NullText when there is no
\* such file): what the command wrote, or what was there before
sidecarText(fs, audioFilePath, a) ==
    IF a.sidecar # NullText THEN a.sidecar
    ELSE IF existsSync(fs, transcriptPath(audioFilePath)) THEN StaleTranscript
    ELSE NullText

\* transcribeWithLocalWhisper(audioFilePath) once exec has ended: the
\* result, from the sidecar on disk
transcribeWithLocalWhisper(fs, audioFilePath, a) ==
    LET text == sidecarText(fs, audioFilePath, a)
    IN  IF a.exec # "ok" THEN transcribeFailure(<<"Command failed">>)
        ELSE IF text = NullText
        THEN transcribeFailure(<<"Whisper output file not found">>)
        ELSE IF Trim(text) = <<>>
        THEN transcribeFailure(<<"Empty transcription result">>)
        ELSE [success |-> TRUE, transcription |-> Trim(text),
              method |-> "local-whisper-cli"]

\* the files after transcribeWithLocalWhisper: the command may have written
\* the sidecar; the method unlinks it when exec succeeded and it exists
filesAfterWhisper(fs, audioFilePath, a) ==
    LET written == IF a.sidecar = NullText THEN fs
                   ELSE fs \cup {transcriptPath(audioFilePath)}
    IN  IF a.exec = "ok"
        THEN written \ {transcriptPath(audioFilePath)}
        ELSE written

\* a variant of transcribeAudio that goes to the backends without looking
\* for the file
transcribeAudio_noExistenceCheck(client, whisperFlag, fs, audioFilePath, answers, w) ==
    LET cloud == transcribeWithGoogleCloud(answers)
        tried == IF client THEN cloud.calls ELSE <<>>
        local == transcribeWithLocalWhisper(fs, audioFilePath, w)
    IN  IF client /\ cloud.status = "returned"
        THEN [out |-> cloud, files |-> fs]
        ELSE IF whisperFlag
        THEN [out |-> Returned(IF local.success THEN local
                               ELSE transcribeFailure(ServicesNotAvailable),
                               Append(tried, WhisperRun)),
              files |-> filesAfterWhisper(fs, audioFilePath, w)]
        ELSE [out |-> Returned(transcribeFailure(ServicesNotAvailable), tried),
              files |-> fs]

\* a variant of transcribeAudio that runs the whisper CLI before the
\* cloud speech backend
transcribeAudio_localFirst(client, whisperFlag, fs, audioFilePath, answers, w) ==
    LET cloud == transcribeWithGoogleCloud(answers)
        local == transcribeWithLocalWhisper(fs, audioFilePath, w)
        ran == IF whisperFlag THEN <<WhisperRun>> ELSE <<>>
        after == IF whisperFlag THEN filesAfterWhisper(fs, audioFilePath, w) ELSE fs
    IN  IF ~existsSync(fs, audioFilePath)
        THEN [out |-> Returned(transcribeFailure(AudioNotFound(audioFilePath)), <<>>),
              files |-> fs]
        ELSE IF whisperFlag /\ local.success
        THEN [out |-> Returned(local, ran), files |-> after]
        ELSE IF client /\ cloud.status = "returned"
        THEN [out |-> Returned(cloud.value, ran \o cloud.calls), files |-> after]
        ELSE [out |-> Returned(transcribeFailure(ServicesNotAvailable),
                               ran \o (IF client THEN cloud.calls ELSE <<>>)),
              files |-> after]

\* transcribeAudio(audioFilePath), with the speech client and the whisper
\* flag as it reads them, the files on disk, and what the backends answer:
\* its result and the files it leaves
transcribeAudio(client, whisperFlag, fs, audioFilePath, answers, w) ==
    LET cloud == transcribeWithGoogleCloud(answers)
        tried == IF client THEN cloud.calls ELSE <<>>
        local == transcribeWithLocalWhisper(fs, audioFilePath, w)
    IN  IF ~existsSync(fs, audioFilePath)
        THEN [out |-> Returned(transcribeFailure(AudioNotFound(audioFilePath)), <<>>),
              files |-> fs]
        ELSE IF client /\ cloud.status = "returned"
        THEN [out |-> cloud, files |-> fs]
        ELSE IF whisperFlag
        THEN [out |-> Returned(IF local.success THEN local
                               ELSE transcribeFailure(ServicesNotAvailable),
                               Append(tried, WhisperRun)),
              files |-> filesAfterWhisper(fs, audioFilePath, w)]
        ELSE [out |-> Returned(transcribeFailure(ServicesNotAvailable), tried),
              files |-> fs]

(***************************************************************************)
(* The startup probe.                                                      *)
(***************************************************************************)
\* the constructor's this.useGemini = process.env.USE_GEMINI === 'true' || true
constructorUseGemini(e) == (e.USE_GEMINI = "true") \/ TRUE

\* ensureModelAvailable's test that the text model is listed: a listed name
\* contains the configured name up to its ':' or equals the configured name
textModelExists(models) ==
    \E m \in models : Includes(m, SplitColonHead(textModel)) \/ m = textModel

visionModelExists(models) ==
    \E m \in models : Includes(m, SplitColonHead(visionModel)) \/ m = visionModel

\* what the cloud model answers to the probe's generateContent("Hello")
GeminiProbeAnswers == {"response", "no_response", "error"}

\* what the local server answers to checkOllamaStatus's GET /api/tags (a
\* status other than 2xx and the 5 s timeout raise in the HTTP client)
StatusAnswers == {"ok", "error"}

\* what the local server answers to ensureModelAvailable's GET /api/tags: a
\* model list, an exception, or a list whose entries have no name
ListAnswers ==
    [kind : {"ok"}, models : SUBSET InstalledModels]
    \cup {[kind |-> "error", models |-> {}], [kind |-> "malformed", models |-> {}]}

VARIABLES
    env,                \* process.env, as the constructor read it
    useGemini,          \* this.useGemini
    isGeminiAvailable,  \* this.isGeminiAvailable
    isOllamaAvailable,  \* this.isOllamaAvailable
    genAI,              \* this.genAI is set (not null)
    speechClient,       \* this.speechClient is set (not null)
    whisper,            \* the module's whisper flag is true (not null)
    initPc,             \* where the un-awaited initializeAI() stands
    whisperPc,          \* where the module's whisper detection stands
    probe,              \* history: the probe's calls and their answers
    files,              \* the paths that exist on disk
    done,               \* the request the last step completed, with its result
    chat                \* the chat store and the message posts being handled

vars == <<env, useGemini, isGeminiAvailable, isOllamaAvailable, genAI,
          speechClient, whisper, initPc, whisperPc, probe, files, done, chat>>

\* the provider-selection state
selection == <<useGemini, isGeminiAvailable, isOllamaAvailable>>

\* the fields of the service, as a method reads them
This ==
    [useGemini |-> useGemini, isGeminiAvailable |-> isGeminiAvailable,
     isOllamaAvailable |-> isOllamaAvailable, genAI |-> genAI, fs |-> files]

NoOutcome == [kind |-> "none"]
NoRequest == [op |-> "none"]
NoDone ==
    [req |-> NoRequest, o |-> NoOutcome, out |-> [status |-> "none", calls |-> <<>>]]

\* the message posts of one session that are followed
MaxPosts == 2
Posts == 1..MaxPosts

\* a post before its request is received
NoPost ==
    [pc |-> "idle", text |-> NullText, voice |-> FALSE, session |-> 0,
     content |-> NullText, transcribed |-> 0, sent |-> <<>>, reply |-> NullText]

\* an empty session (messageCount: default 0) and no post received
NoChat == [messages |-> {}, messageCount |-> 0, posts |-> [r \in Posts |-> NoPost]]

\* the state the constructor leaves (lines 26-54), with initializeAI() about
\* to be called and the whisper detection running
Init ==
    /\ env \in Envs
    /\ useGemini = constructorUseGemini(env)
    /\ isGeminiAvailable = FALSE
    /\ genAI = FALSE
    /\ isOllamaAvailable = FALSE
    /\ speechClient \in (IF env.apiKey THEN BOOLEAN ELSE {FALSE})
    /\ whisper = FALSE
    /\ whisperPc = "exec"
    /\ initPc = "initializeAI"
    /\ probe = [calls |-> <<>>, gemini |-> "none", status |-> "none",
                list |-> "none", models |-> {}]
    /\ files = Files
    /\ done = NoDone
    /\ chat = NoChat

\* initializeAI() up to its first await: initializeGemini throws at once
\* without an API key and falls back to initializeOllama
InitializeAI ==
    /\ initPc = "initializeAI"
    /\ IF useGemini
       THEN IF ~env.apiKey
            THEN /\ useGemini' = FALSE
                 /\ genAI' = genAI
                 /\ initPc' = "checkOllamaStatus"
                 /\ probe' = [probe EXCEPT !.gemini = "no_key",
                                           !.calls = @ \o <<"checkOllamaStatus">>]
            ELSE /\ genAI' = TRUE
                 /\ useGemini' = useGemini
                 /\ initPc' = "generateContent"
                 /\ probe' = [probe EXCEPT !.calls = @ \o <<"generateContent">>]
       ELSE /\ initPc' = "checkOllamaStatus"
            /\ probe' = [probe EXCEPT !.calls = @ \o <<"checkOllamaStatus">>]
            /\ UNCHANGED <<useGemini, genAI>>
    /\ UNCHANGED <<chat, env, isGeminiAvailable, isOllamaAvailable, speechClient,
                   whisper, whisperPc, files>>
    /\ done' = NoDone

\* a variant of the probe that goes on to the local provider when the
\* cloud provider has answered
GeminiProbeReturn_probesBoth ==
    /\ initPc = "generateContent"
    /\ \E a \in GeminiProbeAnswers :
          /\ isGeminiAvailable' = (a = "response")
          /\ useGemini' = (a = "response")
          /\ initPc' = "checkOllamaStatus"
          /\ probe' = [probe EXCEPT !.gemini = a,
                                    !.calls = @ \o <<"checkOllamaStatus">>]
    /\ UNCHANGED <<chat, env, isOllamaAvailable, genAI, speechClient, whisper,
                   whisperPc, files>>
    /\ done' = NoDone

\* initializeGemini after await model.generateContent("Hello")
GeminiProbeReturn ==
    /\ initPc = "generateContent"
    /\ \E a \in GeminiProbeAnswers :
          /\ IF a = "response"
             THEN /\ isGeminiAvailable' = TRUE
                  /\ initPc' = "done"
                  /\ probe' = [probe EXCEPT !.gemini = a]
                  /\ UNCHANGED useGemini
             ELSE /\ useGemini' = FALSE
                  /\ initPc' = "checkOllamaStatus"
                  /\ probe' = [probe EXCEPT !.gemini = a,
                                            !.calls = @ \o <<"checkOllamaStatus">>]
                  /\ UNCHANGED isGeminiAvailable
    /\ UNCHANGED <<chat, env, isOllamaAvailable, genAI, speechClient, whisper,
                   whisperPc, files>>
    /\ done' = NoDone

\* initializeOllama after await this.checkOllamaStatus()
CheckOllamaStatusReturn ==
    /\ initPc = "checkOllamaStatus"
    /\ \E a \in StatusAnswers :
          /\ IF a = "ok"
             THEN /\ isOllamaAvailable' = TRUE
                  /\ initPc' = "ensureModelAvailable"
                  /\ probe' = [probe EXCEPT !.status = a,
                                            !.calls = @ \o <<"ensureModelAvailable">>]
             ELSE /\ isOllamaAvailable' = FALSE
                  /\ initPc' = "done"
                  /\ probe' = [probe EXCEPT !.status = a]
    /\ UNCHANGED <<chat, env, useGemini, isGeminiAvailable, genAI, speechClient,
                   whisper, whisperPc, files>>
    /\ done' = NoDone

\* initializeOllama after await this.ensureModelAvailable(): the method
\* throws unless the list came and names the text model, and the catch
\* clause takes the availability back
EnsureModelAvailableReturn ==
    /\ initPc = "ensureModelAvailable"
    /\ \E a \in ListAnswers :
          /\ isOllamaAvailable' =
                IF a.kind = "ok" /\ textModelExists(a.models)
                THEN isOllamaAvailable
                ELSE FALSE
          /\ probe' = [probe EXCEPT !.list = a.kind, !.models = a.models]
    /\ initPc' = "done"
    /\ UNCHANGED <<chat, env, useGemini, isGeminiAvailable, genAI, speechClient,
                   whisper, whisperPc, files>>
    /\ done' = NoDone

\* the module's detection of the whisper CLI: exec('whisper --help') ends
WhisperDetected ==
    /\ whisperPc = "exec"
    /\ whisperPc' = "done"
    /\ whisper' \in BOOLEAN
    /\ UNCHANGED <<chat, env, useGemini, isGeminiAvailable, isOllamaAvailable, genAI,
                   speechClient, initPc, probe, files>>
    /\ done' = NoDone

(***************************************************************************)
(* Requests.  The service is exported once the constructor has returned;   *)
(* a request reads the service's fields when it is called, up to its first *)
(* await, and completes when the provider has answered.  Requests share    *)
(* nothing but the fields they read, so they are taken one at a time: the  *)
(* caller of one takes its outcome before the next is called.              *)
(***************************************************************************)
\* the arguments callers pass
Prompts == {<<"hi">>}
Contexts == {<<[role |-> "assistant", content |-> <<"yo">>]>>}
Templates == {NullText, <<"Answer this: ", "{user_prompt}">>}
ImagePaths == {NoPath, UploadedImage, MissingImage}
AudioPaths == {UploadedAudio, MissingAudio}

PreviousContexts == {<<>>, <<<<"yo">>, <<"a cat">>>>}

GenerateOps ==
    {"generateTextResponse", "generateMultimodalResponse", "generateTemplatedResponse"}
ImageOps == {"generateOllamaImageCaption", "answerImageQuestion"}
StatusOps == {"getModelInfo", "isReady", "getCurrentService"}
PublicOps == GenerateOps \cup StatusOps \cup {"streamResponse", "transcribeAudio"}
AllOps == PublicOps \cup ImageOps

\* a request: the method called, its arguments, and the fields the method
\* read when it was called
Request(op, prompt, templateText, imagePath, context) ==
    [op |-> op, prompt |-> prompt, templateText |-> templateText,
     imagePath |-> imagePath, context |-> context, at |-> This]

\* what the provider may answer to the call a request makes
AnswersFor(op) == IF op = "getModelInfo" THEN TagsAnswers ELSE Outcomes

\* the method a request calls, on the fields it read, with the provider's answer
Run(r, o) ==
    CASE r.op = "generateTextResponse" ->
            generateTextResponse(r.at, r.prompt, r.context, o)
      [] r.op = "generateMultimodalResponse" ->
            generateMultimodalResponse(r.at, r.prompt, r.imagePath, r.context, o)
      [] r.op = "generateTemplatedResponse" ->
            generateTemplatedResponse(r.at, r.prompt, r.templateText, r.imagePath,
                                      r.context, o)
      [] r.op = "generateOllamaImageCaption" ->
            generateOllamaImageCaption(r.at, r.imagePath, r.prompt, o)
      [] r.op = "answerImageQuestion" ->
            answerImageQuestion(r.at, r.imagePath, r.prompt, r.context, o)
      [] r.op = "getModelInfo" -> getModelInfo(r.at, o)
      [] r.op = "isReady" -> isReady(r.at)
      [] r.op = "getCurrentService" -> getCurrentService(r.at)

\* a variant in which a request marks the local provider down, as the
\* probe's catch clause does
ServiceUnchanged_marksDown ==
    /\ isOllamaAvailable' = FALSE
    /\ UNCHANGED <<chat, env, useGemini, isGeminiAvailable, genAI, speechClient,
                   whisper, initPc, whisperPc, probe>>

\* what a step of the chat pipeline leaves of the service
ServiceUnchangedBut ==
    UNCHANGED <<env, useGemini, isGeminiAvailable, isOllamaAvailable, genAI,
                speechClient, whisper, initPc, whisperPc, probe>>

\* what a request leaves of the service
ServiceUnchanged ==
    UNCHANGED <<chat, env, useGemini, isGeminiAvailable, isOllamaAvailable, genAI,
                speechClient, whisper, initPc, whisperPc, probe>>

\* a call ends: its outcome for the caller
Complete(r, o, out) == done' = [req |-> r, o |-> o, out |-> out]

\* a generation or status method is called and runs to its end: it reads
\* the service's fields before its first await and nothing of the service
\* after it, so that its result is that of running it at once with the
\* answer the provider is going to give
Call(r) ==
    /\ initPc # "initializeAI"
    /\ done.req.op = "none"
    /\ \E o \in AnswersFor(r.op) :
          Complete(r, IF Run(r, o).calls = <<>> THEN NoOutcome ELSE o, Run(r, o))
    /\ ServiceUnchanged
    /\ UNCHANGED files

CallGenerateText ==
    \E p \in Prompts, c \in Contexts :
        Call(Request("generateTextResponse", p, NullText, NoPath, c))

CallGenerateMultimodal ==
    \E p \in Prompts, i \in ImagePaths, c \in Contexts :
        Call(Request("generateMultimodalResponse", p, NullText, i, c))

CallGenerateTemplated ==
    \E p \in Prompts, t \in Templates, i \in ImagePaths, c \in Contexts :
        Call(Request("generateTemplatedResponse", p, t, i, c))

CallImageCaption ==
    \E p \in Prompts \cup {NullText}, i \in ImagePaths :
        Call(Request("generateOllamaImageCaption", p, NullText, i, <<>>))

CallImageQuestion ==
    \E p \in Prompts, i \in ImagePaths, c \in PreviousContexts :
        Call(Request("answerImageQuestion", p, NullText, i, c))

CallGetModelInfo == Call(Request("getModelInfo", NullText, NullText, NoPath, <<>>))

CallIsReady == Call(Request("isReady", NullText, NullText, NoPath, <<>>))

CallGetCurrentService ==
    Call(Request("getCurrentService", NullText, NullText, NoPath, <<>>))

\* streamResponse(prompt, imagePath, onChunk) is called and its stream runs
\* to its end
CallStream ==
    /\ initPc # "initializeAI"
    /\ done.req.op = "none"
    /\ \E p \in Prompts, i \in ImagePaths, post \in PostAnswers, events \in StreamScripts :
          LET r == Request("streamResponse", p, NullText, i, <<>>)
              out == streamResponse(This, p, i, post, events)
          IN  Complete(r,
                       IF out.calls = <<>> THEN NoOutcome
                       ELSE IF post.kind # "ok" THEN post
                       ELSE [kind |-> "stream", events |-> events],
                       out)
    /\ ServiceUnchanged
    /\ UNCHANGED files

\* transcribeAudio(audioFilePath) is called and runs to its end
CallTranscribe ==
    /\ initPc # "initializeAI"
    /\ done.req.op = "none"
    /\ \E path \in AudioPaths, answers \in RecognizeScripts, w \in WhisperAnswers :
          LET r == Request("transcribeAudio", NullText, NullText, path, <<>>)
              t == transcribeAudio(speechClient, whisper, files, path, answers, w)
              cloudTried == \E i \in DOMAIN t.out.calls : t.out.calls[i] # WhisperRun
              whisperRan == \E i \in DOMAIN t.out.calls : t.out.calls[i] = WhisperRun
          IN  /\ Complete(r,
                          IF t.out.calls = <<>> THEN NoOutcome
                          ELSE [kind |-> "speech",
                                answers |-> IF cloudTried THEN answers ELSE <<>>,
                                whisper |-> IF whisperRan THEN w
                                            ELSE [exec |-> "none", sidecar |-> NullText]],
                          t.out)
              /\ files' = t.files
    /\ ServiceUnchanged

\* the caller of a request takes its outcome (the controller's code after
\* its await), or leaves a call that never settles behind
Respond ==
    /\ done.req.op # "none"
    /\ done' = NoDone
    /\ ServiceUnchanged
    /\ UNCHANGED files

Next ==
    \/ InitializeAI
    \/ GeminiProbeReturn
    \/ CheckOllamaStatusReturn
    \/ EnsureModelAvailableReturn
    \/ WhisperDetected
    \/ CallGenerateText
    \/ CallGenerateMultimodal
    \/ CallGenerateTemplated
    \/ CallImageCaption
    \/ CallImageQuestion
    \/ CallGetModelInfo
    \/ CallIsReady
    \/ CallGetCurrentService
    \/ CallStream
    \/ CallTranscribe
    \/ Respond

Spec == Init /\ [][Next]_vars

\* the startup probe under the scheduling the code gives it: a step of the
\* probe that waits for nothing, or for a call that is given a timeout (the
\* 5 s of checkOllamaStatus), is eventually taken; the probe's
\* generateContent and ensureModelAvailable's GET are given none and may
\* never return
FairSpec ==
    /\ Spec
    /\ WF_vars(InitializeAI)
    /\ WF_vars(CheckOllamaStatusReturn)

(***************************************************************************)
(* PromptComposer on its own: applyPromptTemplate is a pure method, called *)
(* here on user texts and templates of up to MaxUserTokens and             *)
(* MaxTemplateTokens tokens.                                               *)
(***************************************************************************)
\* the sequences of at most n tokens of a set
SeqsUpTo(tokens, n) == UNION {[1..k -> tokens] : k \in 0..n}

\* user texts: plain words, the placeholder tokens themselves, and the
\* patterns that String.prototype.replace reads in a replacement string
UserTokens == {"hello", "{user_prompt}", "{prompt}", "$&", "$$"}
MaxUserTokens == 2
UserTexts == SeqsUpTo(UserTokens, MaxUserTokens)

\* templates: absent, empty, blank, with and without placeholders
TemplateTokens == {"Be formal.", "{user_prompt}", "{prompt}", " "}
MaxTemplateTokens == 3
TemplateTexts == {NullText} \cup SeqsUpTo(TemplateTokens, MaxTemplateTokens)

\* applyPromptTemplate(userPrompt, templateText) is called and returns
ApplyTemplate ==
    /\ done.req.op = "none"
    /\ \E userPrompt \in UserTexts, templateText \in TemplateTexts :
          Complete(Request("applyPromptTemplate", userPrompt, templateText,
                           NoPath, <<>>),
                   NoOutcome,
                   Returned([content |->
                                applyPromptTemplate(userPrompt, templateText)],
                            <<>>))
    /\ ServiceUnchanged
    /\ UNCHANGED files

\* the moments at which the messages of a session were saved
MaxMessages == 3
Moments == 1..MaxMessages

\* the messages a session may hold: at most one per moment, of the user or
\* of the assistant
SessionMessages ==
    {[createdAt |-> t, isUserMessage |-> u, content |-> <<"said at", t>>] :
        t \in Moments, u \in BOOLEAN}
Sessions ==
    {session \in SUBSET SessionMessages :
        \A m, n \in session : m.createdAt = n.createdAt => m = n}

\* Message.find({session}).sort({createdAt: -1}).limit(10): the ten newest
\* messages of the session, the newest first
RECURSIVE newestFirst(_)
newestFirst(session) ==
    IF session = {} THEN <<>>
    ELSE LET newest == CHOOSE m \in session :
                           \A n \in session : n.createdAt <= m.createdAt
         IN  <<newest>> \o newestFirst(session \ {newest})

findRecentMessages(session) ==
    LET found == newestFirst(session)
    IN  SubSeq(found, 1, IF Len(found) < 10 THEN Len(found) ELSE 10)

\* Array.prototype.reverse: the array itself, reversed in place
reverse(array) == [i \in 1..Len(array) |-> array[Len(array) + 1 - i]]

\* the callback of recentMessages.reverse().map(...)
turnOf(msg) ==
    [role |-> IF msg.isUserMessage THEN "user" ELSE "assistant",
     content |-> msg.content]

\* const context = recentMessages.reverse().map(...): the context, and the
\* array recentMessages as the statement leaves it
buildContext(recentMessages) ==
    LET reversed == reverse(recentMessages)
    IN  [context |-> [i \in 1..Len(reversed) |-> turnOf(reversed[i])],
         recentMessages |-> reversed]

\* a controller builds the context of a session: the query, then the
\* context from its result
BuildContext ==
    /\ done.req.op = "none"
    /\ \E session \in Sessions :
          LET recentMessages == findRecentMessages(session)
          IN  Complete(Request("buildContext", NullText, NullText, NoPath,
                               recentMessages),
                       NoOutcome,
                       Returned(buildContext(recentMessages), <<>>))
    /\ ServiceUnchanged
    /\ UNCHANGED files

ComposerNext ==
    \/ ApplyTemplate
    \/ BuildContext
    \/ Respond

ComposerSpec == Init /\ [][ComposerNext]_vars

(***************************************************************************)
(* The callers: the controllers of the direct AI endpoints and the chat    *)
(* pipeline, as functions of the result the service returned to them.      *)
(***************************************************************************)
\* the body of the 503 response the direct endpoints send on a failure
ServiceUnavailable(aiResponse) ==
    [status |-> 503,
     body |-> [success |-> FALSE, message |-> <<"AI service unavailable">>,
               error |-> aiResponse.error]]

\* POST /api/chat/ai/text, after its await of generateTextResponse
generateTextResponseController(aiResponse) ==
    IF ~aiResponse.success THEN ServiceUnavailable(aiResponse)
    ELSE [status |-> 200,
          body |-> [success |-> TRUE,
                    data |-> [response |-> aiResponse.content,
                              model |-> aiResponse.model,
                              type |-> aiResponse.type]]]

\* POST /api/chat/ai/caption, after its await of the caption method
generateImageCaptionController(aiResponse) ==
    IF ~aiResponse.success THEN ServiceUnavailable(aiResponse)
    ELSE [status |-> 200,
          body |-> [success |-> TRUE,
                    data |-> [caption |-> aiResponse.content,
                              model |-> aiResponse.model,
                              type |-> aiResponse.type]]]

\* POST /api/chat/ai/image-qa, after its await of answerImageQuestion
answerImageQuestionController(aiResponse, question) ==
    IF ~aiResponse.success THEN ServiceUnavailable(aiResponse)
    ELSE [status |-> 200,
          body |-> [success |-> TRUE,
                    data |-> [answer |-> aiResponse.content,
                              question |-> question,
                              model |-> aiResponse.model,
                              type |-> aiResponse.type]]]

\* the reply POST /sessions/:id/messages keeps when the service throws
OfflineReply == <<"I'm sorry, I'm currently offline. Please try again later.">>

\* POST /sessions/:id/messages: the AI reply it persists, from how its
\* call of generateTemplatedResponse ended
persistedReply(out, imagePath) ==
    [content |-> IF out.status = "returned" THEN out.value.content ELSE OfflineReply,
     isUserMessage |-> FALSE,
     messageType |-> IF Falsy(imagePath) THEN "text" ELSE "multimodal_response",
     aiModel |-> IF out.status = "returned" /\ out.value.success
                 THEN out.value.model ELSE <<"offline">>]

(***************************************************************************)
(* The direct endpoints that take an uploaded image.  The upload middleware *)
(* has stored the file (req.file.path) when the handler starts; the handler *)
(* unlinks it in the finally clause of its inner try.                      *)
(***************************************************************************)
\* req.file.path of an upload
TempImage == <<"upload", ".png">>
Uploads == {NoPath, TempImage}

\* the question, message or custom prompt of the request body (possibly
\* missing)
BodyTexts == {NullText, <<"hi">>}

\* the files on disk once the upload is stored
withUpload(fs, file) == IF file = NoPath THEN fs ELSE fs \cup {file}

\* res.status(400).json(...) of a validation
BadRequest(message) ==
    [status |-> 400, body |-> [success |-> FALSE, message |-> message]]

\* next(error): the error handler's response
ServerError(error) ==
    [status |-> 500, body |-> [success |-> FALSE, message |-> error]]

\* the inner try ... finally of the three handlers: the response sent from
\* how the service call ended, and the files once the finally clause has
\* run; while the call has not settled neither has happened
tryFinally(fs, imagePath, out, response) ==
    CASE out.status = "pending" -> [out |-> Pending(out.calls), files |-> fs]
      [] out.status = "threw" ->
            [out |-> Returned(ServerError(out.error), out.calls),
             files |-> fs \ {imagePath}]
      [] OTHER ->
            [out |-> Returned(response, out.calls), files |-> fs \ {imagePath}]

\* POST /api/chat/ai/caption: generateImageCaption(req, res, next)
captionHandler(fs, file, out) ==
    IF file = NoPath
    THEN [out |-> Returned(BadRequest(<<"Image file is required">>), <<>>),
          files |-> fs]
    ELSE tryFinally(fs, file, out,
                    IF out.status = "returned"
                    THEN generateImageCaptionController(out.value)
                    ELSE BadRequest(NullText))

\* POST /api/chat/ai/image-qa: answerImageQuestion(req, res, next)
imageQuestionHandler(fs, file, question, out) ==
    IF Falsy(question)
    THEN [out |-> Returned(BadRequest(<<"Question is required">>), <<>>),
          files |-> fs]
    ELSE IF file = NoPath
    THEN [out |-> Returned(BadRequest(<<"Image file is required">>), <<>>),
          files |-> fs]
    ELSE tryFinally(fs, file, out,
                    IF out.status = "returned"
                    THEN answerImageQuestionController(out.value, question)
                    ELSE BadRequest(NullText))

\* POST /api/chat/ai/stream: streamResponse(req, res, next); the chunks
\* were written as they came and res.end() closes the 200 response
streamHandler(fs, file, message, out) ==
    IF Falsy(message)
    THEN [out |-> Returned(BadRequest(<<"Message is required">>), <<>>),
          files |-> fs]
    ELSE tryFinally(fs, file, out, [status |-> 200, body |-> [success |-> TRUE]])

\* the handlers' requests
EndpointOps ==
    {"POST /api/chat/ai/caption", "POST /api/chat/ai/image-qa",
     "POST /api/chat/ai/stream"}

\* a caption request is received with its upload and handled
HandleCaption ==
    /\ initPc # "initializeAI"
    /\ done.req.op = "none"
    /\ \E file \in Uploads, customPrompt \in BodyTexts, o \in Outcomes :
          LET fs == withUpload(files, file)
              this == [This EXCEPT !.fs = fs]
              h == captionHandler(
                       fs, file,
                       generateOllamaImageCaption(this, file, customPrompt, o))
          IN  /\ Complete(Request("POST /api/chat/ai/caption", customPrompt,
                                  NullText, file, <<>>),
                          IF h.out.calls = <<>> THEN NoOutcome ELSE o, h.out)
              /\ files' = h.files
    /\ ServiceUnchanged

\* an image question is received with its upload and handled
HandleImageQuestion ==
    /\ initPc # "initializeAI"
    /\ done.req.op = "none"
    /\ \E file \in Uploads, question \in BodyTexts, o \in Outcomes :
          LET fs == withUpload(files, file)
              this == [This EXCEPT !.fs = fs]
              h == imageQuestionHandler(
                       fs, file, question,
                       answerImageQuestion(this, file, question, <<>>, o))
          IN  /\ Complete(Request("POST /api/chat/ai/image-qa", question,
                                  NullText, file, <<>>),
                          IF h.out.calls = <<>> THEN NoOutcome ELSE o, h.out)
              /\ files' = h.files
    /\ ServiceUnchanged

\* a stream request is received, with or without an upload, and handled
HandleStream ==
    /\ initPc # "initializeAI"
    /\ done.req.op = "none"
    /\ \E file \in Uploads, message \in BodyTexts, post \in PostAnswers,
          events \in StreamScripts :
          LET fs == withUpload(files, file)
              this == [This EXCEPT !.fs = fs]
              h == streamHandler(fs, file, message,
                                 streamResponse(this, message, file, post, events))
          IN  /\ Complete(Request("POST /api/chat/ai/stream", message, NullText,
                                  file, <<>>),
                          IF h.out.calls = <<>> THEN NoOutcome
                          ELSE IF post.kind # "ok" THEN post
                          ELSE [kind |-> "stream", events |-> events],
                          h.out)
              /\ files' = h.files
    /\ ServiceUnchanged

EndpointNext ==
    \/ InitializeAI
    \/ GeminiProbeReturn
    \/ CheckOllamaStatusReturn
    \/ EnsureModelAvailableReturn
    \/ HandleCaption
    \/ HandleImageQuestion
    \/ HandleStream
    \/ Respond

EndpointSpec == Init /\ [][EndpointNext]_vars

(***************************************************************************)
(* The chat pipeline: POST /sessions/:id/messages, one step per await that *)
(* reads or writes the store.  Each post works on the session document it  *)
(* loaded; session.save() writes that document's messageCount back.  At    *)
(* most MaxPosts posts to the one session are followed, each once.         *)
(***************************************************************************)
\* the text a post carries, when it carries one
PostNames == <<"one", "two", "three", "four">>
PostText(r) == <<"question", PostNames[r]>>

\* userMessageContent when the transcription gave nothing
VoicePlaceholder == <<"[voice message - click to play]">>

\* the handler up to its findOne of the session: the validation of the
\* body (text, voice file), then the session document is loaded; the posts
\* followed are those received once the startup probe has ended
ReceivePost(r) ==
    /\ initPc = "done"
    /\ chat.posts[r].pc = "idle"
    /\ \E text \in {NullText, PostText(r)}, voice \in BOOLEAN :
          chat' = [chat EXCEPT !.posts[r] =
                     IF Falsy(text) /\ ~voice
                     THEN [@ EXCEPT !.pc = "rejected"]
                     ELSE [@ EXCEPT !.pc = "loaded", !.text = text,
                                    !.voice = voice,
                                    !.session = chat.messageCount]]
    /\ ServiceUnchangedBut
    /\ UNCHANGED <<files, done>>

\* the handler up to userMessage.save(): a voice file without text is
\* transcribed for the content, any voice file is given to transcribeAudio
\* again for its duration, and the user message is saved
SaveUserMessage(r) ==
    /\ chat.posts[r].pc = "loaded"
    /\ \E answers \in RecognizeScripts, w \in WhisperAnswers :
          LET post == chat.posts[r]
              voiceOnly == post.voice /\ Falsy(post.text)
              first == transcribeAudio(speechClient, whisper, files,
                                       UploadedAudio, answers, w)
              fs1 == IF voiceOnly THEN first.files ELSE files
              second == transcribeAudio(speechClient, whisper, fs1,
                                        UploadedAudio, answers, w)
              heard == /\ first.out.value.success
                       /\ ~Falsy(first.out.value.transcription)
              content == IF ~voiceOnly THEN Trim(post.text)
                         ELSE IF heard THEN first.out.value.transcription
                         ELSE VoicePlaceholder
          IN  /\ chat' = [chat EXCEPT
                    !.messages = @ \cup
                        {[createdAt |-> Cardinality(chat.messages) + 1,
                          isUserMessage |-> TRUE, content |-> content,
                          post |-> r]},
                    !.posts[r] = [@ EXCEPT
                        !.pc = "saved", !.content = content,
                        !.transcribed = (IF voiceOnly THEN 1 ELSE 0)
                                        + (IF post.voice THEN 1 ELSE 0)]]
              /\ files' = IF post.voice THEN second.files ELSE files
    /\ ServiceUnchangedBut
    /\ UNCHANGED done

\* session.messageCount += 1; await session.updateActivity(), after the
\* user message (from) and after the reply: the loaded document is saved
CountMessage(r, from, to) ==
    /\ chat.posts[r].pc = from
    /\ chat' = [chat EXCEPT !.messageCount = chat.posts[r].session + 1,
                            !.posts[r] = [@ EXCEPT !.pc = to,
                                                   !.session = @ + 1]]
    /\ ServiceUnchangedBut
    /\ UNCHANGED <<files, done>>

CountUserMessage(r) == CountMessage(r, "saved", "counted")

\* the handler's try block: the recent messages are read, the context is
\* built from them and generateTemplatedResponse is called (no template);
\* the reply's content is the result's, or the offline text
GenerateReply(r) ==
    /\ chat.posts[r].pc = "counted"
    /\ \E o \in Outcomes :
          LET post == chat.posts[r]
              context == buildContext(findRecentMessages(chat.messages)).context
              out == generateTemplatedResponse(This, post.content, NullText,
                                               NoPath, context, o)
          IN  chat' = [chat EXCEPT !.posts[r] =
                         IF out.status = "pending"
                         THEN [@ EXCEPT !.pc = "waiting", !.sent = out.calls]
                         ELSE [@ EXCEPT !.pc = "generated", !.sent = out.calls,
                                        !.reply = persistedReply(out, NoPath).content]]
    /\ ServiceUnchangedBut
    /\ UNCHANGED <<files, done>>

\* await aiResponse.save()
SaveReply(r) ==
    /\ chat.posts[r].pc = "generated"
    /\ chat' = [chat EXCEPT
          !.messages = @ \cup
              {[createdAt |-> Cardinality(chat.messages) + 1,
                isUserMessage |-> FALSE, content |-> chat.posts[r].reply,
                post |-> r]},
          !.posts[r] = [@ EXCEPT !.pc = "replied"]]
    /\ ServiceUnchangedBut
    /\ UNCHANGED <<files, done>>

\* the second count, then the 201 response
CountReply(r) == CountMessage(r, "replied", "done")

PipelineNext ==
    \/ InitializeAI
    \/ GeminiProbeReturn
    \/ CheckOllamaStatusReturn
    \/ EnsureModelAvailableReturn
    \/ \E r \in Posts : ReceivePost(r)
    \/ \E r \in Posts : SaveUserMessage(r)
    \/ \E r \in Posts : CountUserMessage(r)
    \/ \E r \in Posts : GenerateReply(r)
    \/ \E r \in Posts : SaveReply(r)
    \/ \E r \in Posts : CountReply(r)

PipelineSpec == Init /\ [][PipelineNext]_vars

(***************************************************************************)
(* Properties.  A request's outcome is read in the state its call leaves:  *)
(* done.req is the request with the fields it read (done.req.at), done.o   *)
(* what the provider answered, done.out how the call ended.                *)
(***************************************************************************)
\* the provider a completed call was sent to ("none" when it sent nothing)
ProviderOf(out) == IF out.calls = <<>> THEN "none" ELSE out.calls[1].provider

\* the providers a completed call was sent to
ProvidersOf(out) == {out.calls[i].provider : i \in DOMAIN out.calls}

\* the fixed fallback copy
FallbackCopy ==
    {fallbackResponses[k] : k \in DOMAIN fallbackResponses}
    \cup {<<"AI service is currently unavailable.">>}

\* the operations that answer with a result object
ResultOps == GenerateOps \cup {"streamResponse", "transcribeAudio"}

\* the probe has settled with no provider
Unavailable == initPc = "done" /\ ~isGeminiAvailable /\ ~isOllamaAvailable

\* C1: whatever the provider state and whatever the provider answers, a call
\* of generateTextResponse, generateMultimodalResponse,
\* generateTemplatedResponse, streamResponse or transcribeAudio ends by
\* returning a result object that has a success field: it neither throws
\* nor stays unsettled
C1_ErrorBoundary ==
    done.req.op \in ResultOps =>
        /\ done.out.status = "returned"
        /\ "success" \in DOMAIN done.out.value

\* C2: a result of generateTextResponse with success = false has model
\* 'fallback' and a content that is one of the fixed fallback texts, and
\* that content is not empty
C2_FailureIsFallback ==
    (/\ done.req.op = "generateTextResponse"
     /\ done.out.status = "returned"
     /\ ~done.out.value.success)
    => /\ done.out.value.model = <<"fallback">>
       /\ done.out.value.content \in FallbackCopy
       /\ done.out.value.content # <<>>
       /\ done.out.value.content # <<"">>

\* C2 witness: generateTextResponse has returned a failure after a provider
\* call that raised
C2_Witness ==
    /\ done.req.op = "generateTextResponse"
    /\ done.o.kind = "error"
    /\ done.out.status = "returned"
    /\ ~done.out.value.success
    /\ done.out.value.error \in ProviderErrors

\* C3: once the probe has settled the cloud flag is set exactly when the
\* cloud probe was answered, and the local flag exactly when the cloud probe
\* failed and the local probe found the server and the text model; a
\* generateTextResponse call goes to the cloud provider exactly when the
\* cloud flag is set as it is called, otherwise to the local provider
\* exactly when the local flag is set, otherwise to no provider; and with
\* the cloud probe failed and the local probe passed with both models
\* listed, an answered call returns success with the local text model
C3_SelectionPriority ==
    /\ initPc = "done" =>
          /\ isGeminiAvailable <=> probe.gemini = "response"
          /\ isOllamaAvailable <=>
                /\ probe.gemini # "response"
                /\ probe.status = "ok"
                /\ probe.list = "ok"
                /\ textModelExists(probe.models)
    /\ done.req.op = "generateTextResponse" =>
          ProviderOf(done.out) =
              IF done.req.at.isGeminiAvailable THEN "gemini"
              ELSE IF done.req.at.isOllamaAvailable THEN "ollama"
              ELSE "none"
    /\ (/\ done.req.op = "generateTextResponse"
        /\ initPc = "done"
        /\ probe.gemini \in {"no_key", "no_response", "error"}
        /\ probe.status = "ok"
        /\ probe.list = "ok"
        /\ {textModel, visionModel} \subseteq probe.models
        /\ done.o.kind = "ok")
       => /\ done.out.status = "returned"
          /\ done.out.value.success
          /\ done.out.value.model = textModel
          /\ done.out.value.content = done.o.text

\* C3 witness: the cloud probe raised, the local probe found both models,
\* and generateTextResponse has returned the local model's answer
C3_Witness ==
    /\ done.req.op = "generateTextResponse"
    /\ initPc = "done"
    /\ probe.gemini = "error"
    /\ {textModel, visionModel} \subseteq probe.models
    /\ done.out.status = "returned"
    /\ done.out.value.success
    /\ done.out.value.model = textModel

\* C4: the startup probe always comes to its end
C4_ProbingTerminates == <>(initPc = "done")

\* C5: started with USE_GEMINI off, the probe never calls the cloud
\* provider, never sets the cloud flag, and has probed the local provider
\* when it ends; started with it on, the cloud flag is set only if the cloud
\* probe was answered
C5_UseCloudFlag ==
    /\ env.USE_GEMINI = "false" =>
          /\ \A i \in DOMAIN probe.calls : probe.calls[i] # "generateContent"
          /\ ~isGeminiAvailable
          /\ initPc = "done" =>
                \E i \in DOMAIN probe.calls : probe.calls[i] = "checkOllamaStatus"
    /\ env.USE_GEMINI = "true" /\ isGeminiAvailable => probe.gemini = "response"

\* C6: while the cloud provider is the selected one, every step leaves it
\* selected and the local flag unset, a generation call is sent to no
\* provider but the cloud one, and a generation call whose cloud call
\* raised or answered out of shape returns the fallback result
C6_NoRuntimeFailover ==
    [][(useGemini /\ isGeminiAvailable) =>
          /\ useGemini' /\ isGeminiAvailable' /\ ~isOllamaAvailable'
          /\ done'.req.op \in GenerateOps =>
                /\ ProvidersOf(done'.out) \subseteq {"gemini"}
                /\ (done'.out.calls # <<>> /\ done'.o.kind \in {"error", "malformed"})
                   => /\ done'.out.status = "returned"
                      /\ ~done'.out.value.success
                      /\ done'.out.value.model = <<"fallback">>
                      /\ done'.out.value.content \in FallbackCopy]_vars

\* C6 witness: in cloud mode a generateTextResponse call whose cloud call
\* raised has returned the fallback result
C6_Witness ==
    /\ useGemini /\ isGeminiAvailable
    /\ done.req.op = "generateTextResponse"
    /\ ProviderOf(done.out) = "gemini"
    /\ done.o.kind = "error"
    /\ done.out.value.model = <<"fallback">>

\* C7: once the probe has ended no step changes useGemini,
\* isGeminiAvailable or isOllamaAvailable
C7_SelectionFrozen == [][initPc = "done" => UNCHANGED selection]_vars

\* C7 witness: getModelInfo has asked the local server for its models after
\* the probe's end
C7_Witness ==
    /\ initPc = "done"
    /\ done.req.op = "getModelInfo"
    /\ done.out.calls # <<>>
    /\ isOllamaAvailable

\* C8: the cloud flag and the local flag are never both set, the cloud flag
\* is set only while useGemini is, and a generation, streaming or status
\* call is sent to one provider at most
C8_OneProvider ==
    /\ ~(isGeminiAvailable /\ isOllamaAvailable)
    /\ isGeminiAvailable => useGemini
    /\ done.req.op \in PublicOps \ {"transcribeAudio"} =>
          Cardinality(ProvidersOf(done.out)) <= 1

\* C8 witness: both models are installed, the cloud probe failed, and a
\* templated request with an existing image was made in local mode
C8_Witness ==
    /\ initPc = "done"
    /\ isOllamaAvailable /\ ~isGeminiAvailable /\ ~useGemini
    /\ probe.gemini = "no_response"
    /\ done.req.op = "generateTemplatedResponse"
    /\ done.req.imagePath = NoPath
    /\ Cardinality(ProvidersOf(done.out)) = 1

\* C9: with the probe settled and no provider available, a call is sent to
\* no provider and returns; getModelInfo reports available = false,
\* isReady false, getCurrentService 'None', and generateTextResponse,
\* generateMultimodalResponse with an image, generateTemplatedResponse and
\* streamResponse return success = false with the text, image, text or
\* image, and streaming fallback copy
C9_UnavailableFallbacks ==
    (Unavailable /\ done.req.op \in PublicOps \ {"transcribeAudio"}) =>
        /\ done.out.calls = <<>>
        /\ done.out.status = "returned"
        /\ done.req.op = "getModelInfo" => done.out.value.available = FALSE
        /\ done.req.op = "isReady" => done.out.value.ready = FALSE
        /\ done.req.op = "getCurrentService" => done.out.value.activeService = "None"
        /\ done.req.op \in GenerateOps \cup {"streamResponse"} =>
              /\ ~done.out.value.success
              /\ done.out.value.model = <<"fallback">>
              /\ done.out.value.content =
                    CASE done.req.op = "streamResponse" -> fallbackResponses.stream
                      [] done.req.op = "generateTextResponse" -> fallbackResponses.text
                      [] OTHER -> IF Falsy(done.req.imagePath)
                                  THEN fallbackResponses.text
                                  ELSE fallbackResponses.image

\* C9 witness: with no provider available, generateMultimodalResponse was
\* called with an image and returned the image fallback copy
C9_Witness ==
    /\ Unavailable
    /\ done.req.op = "generateMultimodalResponse"
    /\ done.req.imagePath = UploadedImage
    /\ done.out.value.content = fallbackResponses.image

\* C10: once the probe has settled, generateMultimodalResponse without an
\* image path ends as generateTextResponse does on the same prompt, context
\* and provider answer
C10_ImagelessIsText ==
    initPc = "done" =>
        \A p \in Prompts, c \in Contexts, o \in Outcomes :
            generateMultimodalResponse(This, p, NoPath, c, o)
                = generateTextResponse(This, p, c, o)

\* C11: in every provider state generateTemplatedResponse ends as
\* generateMultimodalResponse does on the composed prompt when an image
\* path is given, and as generateTextResponse does on the composed prompt
\* when none is
C11_TemplatedDelegates ==
    \A p \in Prompts, t \in Templates, i \in ImagePaths, c \in Contexts, o \in Outcomes :
        generateTemplatedResponse(This, p, t, i, c, o)
            = IF Falsy(i)
              THEN generateTextResponse(This, applyPromptTemplate(p, t), c, o)
              ELSE generateMultimodalResponse(This, applyPromptTemplate(p, t), i, c, o)

\* the fallback copy that suits a request: the text copy for a request
\* without an image, the image or image-Q&A copy for one with an image, the
\* streaming copy for a streaming request
RequestedCopy(req) ==
    CASE req.op = "streamResponse" -> {"stream"}
      [] req.op \in ImageOps -> {"image", "image_qa"}
      [] req.op = "generateTextResponse" -> {"text"}
      [] OTHER -> IF Falsy(req.imagePath) THEN {"text"} ELSE {"image", "image_qa"}

\* C12: a failure result of generateTextResponse,
\* generateMultimodalResponse, generateTemplatedResponse,
\* generateOllamaImageCaption, answerImageQuestion or streamResponse has
\* the type and the fallback copy of the modality that was requested
C12_FallbackOfRequestedModality ==
    (/\ done.req.op \in GenerateOps \cup ImageOps \cup {"streamResponse"}
     /\ done.out.status = "returned"
     /\ ~done.out.value.success)
    => /\ done.out.value.type \in RequestedCopy(done.req)
       /\ done.out.value.content = fallbackResponses[done.out.value.type]

\* the texts an HTTP response of a direct endpoint shows to its client
DeliveredTexts(response) ==
    IF response.status = 503
    THEN {response.body.message, response.body.error}
    ELSE {}

\* C13: when a provider call raised, the provider's error text is in
\* neither the AI reply the chat pipeline persists nor the body of the HTTP
\* response of the text, caption and image-Q&A endpoints
C13_ErrorTextNotDelivered ==
    (/\ done.out.status = "returned"
     /\ done.out.calls # <<>>
     /\ done.o.kind = "error")
    => /\ done.req.op = "generateTemplatedResponse" =>
             ~Includes(persistedReply(done.out, done.req.imagePath).content,
                       done.o.error)
       /\ done.req.op = "generateTextResponse" =>
             \A t \in DeliveredTexts(generateTextResponseController(done.out.value)) :
                 ~Includes(t, done.o.error)
       /\ done.req.op = "generateOllamaImageCaption" =>
             \A t \in DeliveredTexts(generateImageCaptionController(done.out.value)) :
                 ~Includes(t, done.o.error)
       /\ done.req.op = "answerImageQuestion" =>
             \A t \in DeliveredTexts(
                         answerImageQuestionController(done.out.value, done.req.prompt)) :
                 ~Includes(t, done.o.error)

\* C14: with a provider active, generateMultimodalResponse on an image
\* path whose file does not exist calls no provider and returns a failure
\* result whose error names the missing file
C14_MissingImage ==
    (/\ done.req.op = "generateMultimodalResponse"
     /\ ~Falsy(done.req.imagePath)
     /\ ~existsSync(done.req.at.fs, done.req.imagePath)
     /\ Route(done.req.at) # "none")
    => /\ done.out.calls = <<>>
       /\ done.out.status = "returned"
       /\ ~done.out.value.success
       /\ Includes(done.out.value.error, done.req.imagePath)
       /\ done.out.value.error \notin ProviderErrors

\* the non-empty fragments of the lines of a chunk, in order
RECURSIVE ChunkFragments(_)
ChunkFragments(lines) ==
    IF lines = <<>> THEN <<>>
    ELSE (IF ~Head(lines).bad /\ Head(lines).response # <<>>
          THEN <<Head(lines).response>> ELSE <<>>)
         \o ChunkFragments(Tail(lines))

\* the non-empty fragments a stream delivers before its transport finishes
RECURSIVE ReceivedFragments(_)
ReceivedFragments(events) ==
    IF events = <<>> \/ Head(events).type # "data" THEN <<>>
    ELSE ChunkFragments(Head(events).chunk) \o ReceivedFragments(Tail(events))

\* the concatenation of a sequence of texts
RECURSIVE Concat(_)
Concat(texts) == IF texts = <<>> THEN <<>> ELSE Head(texts) \o Concat(Tail(texts))

\* whether a stream's transport finishes, or the stream carries the done signal
TransportFinishes(events) ==
    \E k \in DOMAIN events :
        \/ events[k].type \in {"end", "error"}
        \/ \E j \in DOMAIN events[k].chunk : events[k].chunk[j].done

\* the stream's state when its k-th event arrives
StreamBefore(events, k) == onEvents(OpenStream, SubSeq(events, 1, k - 1))

\* C15: streamResponse passes to onChunk each non-empty fragment it
\* receives, once and in arrival order, none of them after its promise has
\* settled, and a successful result's content is the concatenation of the
\* fragments passed to onChunk
C15_ChunksInOrderBeforeSettling ==
    (done.req.op = "streamResponse" /\ done.o.kind = "stream") =>
        LET st == onEvents(OpenStream, done.o.events)
        IN  /\ st.onChunk = ReceivedFragments(done.o.events)
            /\ ~st.late
            /\ done.out.status = "returned" =>
                  done.out.value.content = Concat(st.onChunk)

\* C16: once the stream is open, the promise of streamResponse is settled
\* when the provider has sent the done signal or the transport has ended or
\* failed
C16_StreamSettles ==
    (/\ done.req.op = "streamResponse"
     /\ done.o.kind = "stream"
     /\ TransportFinishes(done.o.events))
    => done.out.status \in {"returned", "threw"}

\* C17: when the transport fails while the stream is open and the promise
\* unsettled, streamResponse rejects with the transport's error: it does
\* not resolve with the text accumulated so far
C17_TransportErrorRejects ==
    (done.req.op = "streamResponse" /\ done.o.kind = "stream") =>
        \A k \in DOMAIN done.o.events :
            (/\ done.o.events[k].type = "error"
             /\ StreamBefore(done.o.events, k).promise = "pending"
             /\ StreamBefore(done.o.events, k).transport = "flowing")
            => /\ done.out.status = "threw"
               /\ done.out.error = done.o.events[k].error

\* C17 witness: a stream delivered a fragment without the done signal and
\* then failed, and streamResponse has rejected with the transport's error
C17_Witness ==
    /\ done.req.op = "streamResponse"
    /\ done.o.kind = "stream"
    /\ ReceivedFragments(done.o.events) # <<>>
    /\ \E k \in DOMAIN done.o.events :
          /\ done.o.events[k].type = "error"
          /\ StreamBefore(done.o.events, k).promise = "pending"
          /\ StreamBefore(done.o.events, k).fullResponse # <<>>
    /\ done.out.status = "threw"

\* C18: while the cloud provider is the selected one, a streamResponse call
\* is sent to the cloud provider, and it does not return the streaming
\* fallback without having called it
C18_CloudServesStream ==
    (/\ done.req.op = "streamResponse"
     /\ done.req.at.useGemini /\ done.req.at.isGeminiAvailable)
    => /\ ProviderOf(done.out) = "gemini"
       /\ ~(/\ done.out.status = "returned"
            /\ ~done.out.value.success
            /\ done.out.calls = <<>>)

\* C19: transcribeAudio on a path where no file exists contacts neither the
\* cloud speech backend nor the whisper CLI, leaves the files as they were,
\* and returns success false, transcription null and an error that names
\* the path
C19_MissingAudioFailsFast ==
    (/\ done.req.op = "transcribeAudio"
     /\ ~existsSync(done.req.at.fs, done.req.imagePath))
    => /\ done.out.calls = <<>>
       /\ files = done.req.at.fs
       /\ done.out.status = "returned"
       /\ done.out.value.success = FALSE
       /\ done.out.value.transcription = NullText
       /\ Includes(done.out.value.error, done.req.imagePath)

\* C19 witness: transcribeAudio has completed on the missing path while
\* both the speech client and the whisper CLI were there to be used
C19_Witness ==
    /\ done.req.op = "transcribeAudio"
    /\ done.req.imagePath = MissingAudio
    /\ ~existsSync(done.req.at.fs, MissingAudio)
    /\ speechClient
    /\ whisper
    /\ done.out.status = "returned"
    /\ done.out.value.error = AudioNotFound(MissingAudio)

\* the order of the configurations as the cascade is documented
CascadeOrder ==
    <<[encoding |-> "WEBM_OPUS", sampleRateHertz |-> 48000],
      [encoding |-> "OGG_OPUS", sampleRateHertz |-> 48000],
      [encoding |-> "WEBM_OPUS", sampleRateHertz |-> 16000],
      [encoding |-> "MP3", sampleRateHertz |-> 44100],
      [encoding |-> "LINEAR16", sampleRateHertz |-> 16000]>>

\* the recognize calls of a completed transcribeAudio, in the order made
CloudAttempts(calls) == SelectSeq(calls, LAMBDA c : c # WhisperRun)

\* an answer of the speech backend that yields a non-empty transcript
Yields(a) == a.kind = "results" /\ a.transcript # <<>>

\* C20: the recognize calls of one transcribeAudio are made one after the
\* other in the order WEBM_OPUS@48000, OGG_OPUS@48000, WEBM_OPUS@16000,
\* MP3@44100, LINEAR16@16000; a configuration after the first is attempted
\* only if every earlier attempt threw or gave no transcript; the first
\* attempt that yields a non-empty transcript is the last attempt, and its
\* transcript (trimmed) is what transcribeAudio returns
C20_CascadeInOrder ==
    (done.req.op = "transcribeAudio" /\ done.o.kind = "speech"
        /\ done.o.answers # <<>>)
    => LET tried == CloudAttempts(done.out.calls)
           answers == done.o.answers
       IN  /\ Len(tried) \in 1..Len(CascadeOrder)
           /\ tried = SubSeq(CascadeOrder, 1, Len(tried))
           /\ \A i \in 2..Len(tried) : \A j \in 1..(i - 1) : ~Yields(answers[j])
           /\ \A k \in 1..Len(tried) :
                 Yields(answers[k])
                 => /\ Len(tried) = k
                    /\ done.out.calls = tried
                    /\ done.out.status = "returned"
                    /\ done.out.value.success
                    /\ done.out.value.transcription = Trim(answers[k].transcript)

\* C20 witness: the default configuration was refused, the next gave no
\* results, the third gave a transcript, and transcribeAudio returned it
\* after exactly three attempts although the fourth would have answered too
C20_Witness ==
    /\ done.req.op = "transcribeAudio"
    /\ done.o.kind = "speech"
    /\ done.o.answers # <<>>
    /\ done.o.answers[1].kind = "error"
    /\ Yields(done.o.answers[3])
    /\ Yields(done.o.answers[4])
    /\ Len(done.out.calls) = 3
    /\ done.out.status = "returned"
    /\ done.out.value.success
    /\ done.out.value.transcription = done.o.answers[3].transcript

\* C21: in one transcribeAudio the recognize calls come before the whisper
\* run, and with a speech client the first call is a recognize call; the
\* whisper CLI is run only when it was detected and the cloud path gave no
\* transcript (no speech client, or no attempt yielded one); when a
\* recognize call yields a transcript the whisper CLI is not run
C21_CloudBeforeLocal ==
    (done.req.op = "transcribeAudio" /\ done.out.calls # <<>>)
    => LET calls == done.out.calls
           tried == CloudAttempts(calls)
           ran == \E i \in DOMAIN calls : calls[i] = WhisperRun
           cloudText == \E k \in 1..Len(tried) : Yields(done.o.answers[k])
       IN  /\ \A i \in DOMAIN calls : calls[i] = WhisperRun => i = Len(calls)
           /\ speechClient => Head(calls) = CascadeOrder[1]
           /\ ~speechClient => tried = <<>>
           /\ ran => whisper /\ ~cloudText
           /\ cloudText => ~ran /\ done.out.value.success

\* C21 witness: every recognize call failed, then the whisper CLI ran and
\* its transcript was returned
C21_Witness ==
    /\ done.req.op = "transcribeAudio"
    /\ speechClient
    /\ Len(done.out.calls) = Len(CascadeOrder) + 1
    /\ done.out.calls[Len(done.out.calls)] = WhisperRun
    /\ done.out.value.success
    /\ done.out.value.transcription = <<"hello">>

\* an answer of the speech backend whose transcript holds text, not only
\* white space
YieldsText(a) == a.kind = "results" /\ Trim(a.transcript) # <<>>

\* a completed transcribeAudio got text from the cloud speech backend or
\* from the whisper CLI
SomePathYieldsText ==
    /\ done.o.kind = "speech"
    /\ \/ \E k \in 1..Len(CloudAttempts(done.out.calls)) :
             YieldsText(done.o.answers[k])
       \/ /\ \E i \in DOMAIN done.out.calls : done.out.calls[i] = WhisperRun
          /\ transcribeWithLocalWhisper(done.req.at.fs, done.req.imagePath,
                                        done.o.whisper).success

\* C22: a transcribeAudio in which neither the cloud speech backend nor
\* the whisper CLI gave text returns (does not throw) a result with
\* success false, transcription null and an error
C22_NoTextIsFailure ==
    (done.req.op = "transcribeAudio" /\ ~SomePathYieldsText)
    => /\ done.out.status = "returned"
       /\ done.out.value.success = FALSE
       /\ done.out.value.transcription = NullText
       /\ ~Falsy(done.out.value.error)

\* C23: applyPromptTemplate returns the user's text unchanged when the
\* template is absent or empty, whatever the (non-null) user text is
C23_EmptyTemplateIsIdentity ==
    (done.req.op = "applyPromptTemplate" /\ Falsy(done.req.templateText))
    => done.out.value.content = done.req.prompt

\* C23 witness: applyPromptTemplate has returned on the empty template with
\* a user text of two tokens, one of them a replacement pattern
C23_Witness ==
    /\ done.req.op = "applyPromptTemplate"
    /\ done.req.templateText = <<>>
    /\ done.req.prompt = <<"hello", "$&">>
    /\ done.out.value.content = <<"hello", "$&">>

\* the template holds one of the two placeholder tokens
HasPlaceholder(templateText) ==
    \E i \in DOMAIN templateText : templateText[i] \in {"{user_prompt}", "{prompt}"}

\* s with the first occurrence of token replaced by text, text taken as it is
RECURSIVE SubstituteFirst(_, _, _)
SubstituteFirst(s, token, text) ==
    IF s = <<>> THEN <<>>
    ELSE IF Head(s) = token THEN text \o Tail(s)
    ELSE <<Head(s)>> \o SubstituteFirst(Tail(s), token, text)

\* C24: on a template that holds a placeholder token, applyPromptTemplate
\* returns the template with the first {user_prompt} and then the first
\* {prompt} each replaced by the user's text, and nothing appended
C24_PlaceholdersReplaced ==
    (/\ done.req.op = "applyPromptTemplate"
     /\ ~Falsy(done.req.templateText)
     /\ HasPlaceholder(done.req.templateText))
    => done.out.value.content
         = SubstituteFirst(
               SubstituteFirst(done.req.templateText, "{user_prompt}",
                               done.req.prompt),
               "{prompt}", done.req.prompt)

\* what C25 says of a template without placeholder: the template, a blank
\* line and the label, the user's text
Appended(templateText, userPrompt) ==
    templateText \o <<"\n\nUser Query: ">> \o userPrompt

\* C25 as stated: on every non-empty template without placeholder token
\* applyPromptTemplate returns the template, then a blank line and the
\* label, then the user's text
C25_AppendsToNonEmpty ==
    (/\ done.req.op = "applyPromptTemplate"
     /\ ~Falsy(done.req.templateText)
     /\ ~HasPlaceholder(done.req.templateText))
    => done.out.value.content = Appended(done.req.templateText, done.req.prompt)

\* C25 amended: on every template without placeholder token that is not
\* blank (has a token other than white space), applyPromptTemplate returns
\* the template, then a blank line and the label, then the user's text; a
\* blank template is handled as the empty one
C25_AppendsToNonBlank ==
    (/\ done.req.op = "applyPromptTemplate"
     /\ ~Falsy(done.req.templateText)
     /\ ~HasPlaceholder(done.req.templateText))
    => done.out.value.content
         = IF Trim(done.req.templateText) = <<>> THEN done.req.prompt
           ELSE Appended(done.req.templateText, done.req.prompt)

\* C25 witness: applyPromptTemplate("hello", "Be formal.") has returned the
\* template, the label and the user's text in that order
C25_Witness ==
    /\ done.req.op = "applyPromptTemplate"
    /\ done.req.templateText = <<"Be formal.">>
    /\ done.req.prompt = <<"hello">>
    /\ done.out.value.content = <<"Be formal.", "\n\nUser Query: ", "hello">>

\* the template with the first {user_prompt} and the first {prompt} of the
\* template itself replaced by the user's text, taken as it is
RECURSIVE SubstituteInTemplate(_, _, _)
SubstituteInTemplate(templateText, userPrompt, left) ==
    IF templateText = <<>> THEN <<>>
    ELSE IF Head(templateText) \in left
    THEN userPrompt
         \o SubstituteInTemplate(Tail(templateText), userPrompt,
                                 left \ {Head(templateText)})
    ELSE <<Head(templateText)>>
         \o SubstituteInTemplate(Tail(templateText), userPrompt, left)

\* C26: for every user text, those holding placeholder tokens included,
\* applyPromptTemplate substitutes at the placeholders of the template only:
\* the result is the template with its first {user_prompt} and its first
\* {prompt} replaced by the user's text as it is, the inserted text being
\* neither scanned nor expanded
C26_OneShotSubstitution ==
    (/\ done.req.op = "applyPromptTemplate"
     /\ ~Falsy(done.req.templateText)
     /\ HasPlaceholder(done.req.templateText))
    => done.out.value.content
         = SubstituteInTemplate(done.req.templateText, done.req.prompt,
                                {"{user_prompt}", "{prompt}"})

\* the messages of a list, the oldest first
RECURSIVE OldestFirst(_)
OldestFirst(messages) ==
    IF messages = <<>> THEN <<>>
    ELSE LET k == CHOOSE i \in DOMAIN messages :
                      \A j \in DOMAIN messages :
                          messages[i].createdAt <= messages[j].createdAt
         IN  <<messages[k]>>
             \o OldestFirst([i \in 1..(Len(messages) - 1) |->
                                IF i < k THEN messages[i] ELSE messages[i + 1]])

\* C27: building the context leaves the message list it is given as it
\* was, and returns the messages oldest first, each with role "user" when
\* the end user wrote it and "assistant" otherwise
C27_BuildContextPure ==
    done.req.op = "buildContext"
    => LET given == done.req.context
           oldest == OldestFirst(given)
       IN  /\ done.out.value.recentMessages = given
           /\ done.out.value.context
                = [i \in 1..Len(given) |->
                     [role |-> IF oldest[i].isUserMessage THEN "user"
                               ELSE "assistant",
                      content |-> oldest[i].content]]

\* C28: the request generateTextResponse sends to the provider, cloud or
\* local, holds the caller's context turns in their order followed by the
\* prompt as the last, user, turn
C28_ContextReachesProvider ==
    (done.req.op = "generateTextResponse" /\ done.out.calls # <<>>)
    => /\ Len(done.out.calls) = 1
       /\ done.out.calls[1].messages
            = done.req.context
              \o <<[role |-> "user", content |-> done.req.prompt]>>

\* C29: when a caption, image question or stream request that came with
\* an uploaded image has been handled, however the handler ended, the
\* uploaded file is no longer on disk
C29_UploadDeleted ==
    (done.req.op \in EndpointOps /\ done.req.imagePath # NoPath)
    => ~existsSync(files, done.req.imagePath)

\* C30: once the local probe has read the server's model list, the local
\* provider is unavailable when the list does not name the text model, and
\* available when the list names the text model and not the vision model
C30_TextModelRequired ==
    (initPc = "done" /\ probe.list = "ok")
    => /\ textModel \notin probe.models => ~isOllamaAvailable
       /\ (textModel \in probe.models /\ visionModel \notin probe.models)
          => isOllamaAvailable

\* the whisper CLI was run in a completed transcribeAudio
WhisperRan == \E i \in DOMAIN done.out.calls : done.out.calls[i] = WhisperRun

\* C31: when every attempt of a transcribeAudio failed, the error of its
\* result is the diagnostic of the last attempt that failed: the whisper
\* step's error when the CLI was run, the cloud cascade's last error
\* otherwise
C31_LastDiagnosticSurfaced ==
    (/\ done.req.op = "transcribeAudio"
     /\ done.o.kind = "speech"
     /\ done.out.status = "returned"
     /\ ~done.out.value.success)
    => done.out.value.error
         = IF WhisperRan
           THEN transcribeWithLocalWhisper(done.req.at.fs, done.req.imagePath,
                                           done.o.whisper).error
           ELSE transcribeWithGoogleCloud(done.o.answers).error

\* C32: after the whisper step of a transcribeAudio, however it ended, the
\* sidecar transcript the command wrote is no longer on disk, and every
\* other file is as it was
C32_SidecarRemoved ==
    (/\ done.req.op = "transcribeAudio"
     /\ done.o.kind = "speech"
     /\ WhisperRan)
    => LET sidecar == transcriptPath(done.req.imagePath)
       IN  /\ done.o.whisper.sidecar # NullText => ~existsSync(files, sidecar)
           /\ files \ {sidecar} = done.req.at.fs \ {sidecar}

\* C34: a generation call whose provider never answers does not stay
\* pending: its call times out and it returns the fallback result of a
\* provider failure
C34_SilentProviderTimesOut ==
    (/\ done.req.op \in GenerateOps \cup ImageOps
     /\ done.o.kind = "silent")
    => /\ done.out.status = "returned"
       /\ ~done.out.value.success
       /\ done.out.value.content \in {fallbackResponses[k] : k \in DOMAIN fallbackResponses}

\* C35: the local-available flag is true only once the probe has read the
\* server's model list and found the text model in it, and a request is
\* sent to the local provider only then
C35_LocalOnlyAfterProbe ==
    LET verified == /\ initPc = "done"
                    /\ probe.list = "ok"
                    /\ textModelExists(probe.models)
    IN  /\ isOllamaAvailable => verified
        /\ (done.req.op \in GenerateOps /\ ProviderOf(done.out) = "ollama")
           => verified

\* the provider generateTextResponse dispatches to, by the name the
\* diagnostics give it
DispatchName(this) ==
    CASE Route(this) = "gemini" -> "Gemini"
      [] Route(this) = "ollama" -> "Ollama"
      [] OTHER -> "None"

\* C36: in every state getCurrentService names the provider
\* generateTextResponse dispatches to, isReady is true exactly when there
\* is one, and getModelInfo reports available only when isReady is true
C36_DiagnosticsAgreeWithRouting ==
    /\ getCurrentService(This).value.activeService = DispatchName(This)
    /\ isReady(This).value.ready = (DispatchName(This) # "None")
    /\ \A o \in TagsAnswers :
          LET info == getModelInfo(This, o)
          IN  (info.status = "returned" /\ info.value.available)
              => isReady(This).value.ready

\* C36 witness: getCurrentService has answered Ollama while the local
\* provider is the one requests are dispatched to
C36_Witness ==
    /\ done.req.op = "getCurrentService"
    /\ done.out.value.activeService = "Ollama"
    /\ Route(This) = "ollama"
    /\ isReady(This).value.ready

\* the events of a stream without the lines that cannot be parsed
WithoutBadLines(events) ==
    [k \in DOMAIN events |->
        [events[k] EXCEPT !.chunk = SelectSeq(@, LAMBDA line : ~line.bad)]]

\* how the promise of a stream has settled
Settlement(st) == <<st.promise, st.content, st.error>>

\* C39: the promise of streamResponse keeps the outcome the first
\* terminating event gave it whatever comes later, and a line that cannot
\* be parsed changes nothing of the outcome: the fragments and the done
\* signal of the other lines of its chunk count as if it were not there
C39_SettlesOnceLinesIndependent ==
    (done.req.op = "streamResponse" /\ done.o.kind = "stream") =>
        LET events == done.o.events
            final == onEvents(OpenStream, events)
        IN  /\ \A k \in 1..Len(events) :
                  StreamBefore(events, k).promise # "pending"
                  => Settlement(final) = Settlement(StreamBefore(events, k))
            /\ Settlement(final)
                 = Settlement(onEvents(OpenStream, WithoutBadLines(events)))

\* C33: a post of the chat pipeline calls transcribeAudio only when it
\* carries a voice file and no text, and then once; a post with text and a
\* voice file never calls it
C33_TranscribeVoiceOnlyOnce ==
    \A r \in Posts :
        LET post == chat.posts[r]
        IN  /\ post.transcribed <= 1
            /\ post.transcribed > 0 => post.voice /\ Falsy(post.text)

\* the number of turns of a request's message list that carry a text
TurnsWith(messages, text) ==
    Cardinality({i \in DOMAIN messages : messages[i].content = text})

\* C37: the message list a post sends to the local provider holds the
\* text of the post's user message once
C37_PromptSentOnce ==
    \A r \in Posts :
        LET post == chat.posts[r]
        IN  (post.sent # <<>> /\ post.sent[1].provider = "ollama")
            => TurnsWith(post.sent[1].messages, post.content) = 1

\* the messages of the store that a post saved
SavedBy(r, byUser) ==
    {m \in chat.messages : m.post = r /\ m.isUserMessage = byUser}

\* C38: once the posts received have been answered, each accepted post has
\* saved one user message and after it one reply, and the session's
\* messageCount is the number of messages saved
C38_OnePairPerPostAndCount ==
    (\A r \in Posts : chat.posts[r].pc \in {"idle", "rejected", "done"})
    => /\ \A r \in Posts :
             chat.posts[r].pc = "done"
             => /\ Cardinality(SavedBy(r, TRUE)) = 1
                /\ Cardinality(SavedBy(r, FALSE)) = 1
                /\ \A u \in SavedBy(r, TRUE), a \in SavedBy(r, FALSE) :
                      /\ u.createdAt < a.createdAt
                      /\ a.content = chat.posts[r].reply
       /\ chat.messageCount = Cardinality(chat.messages)

=============================================================================
